---- MODULE Spec2Model ----
(***************************************************************************)
(* Model of the documentation-grounded explanation pipeline: the RAG       *)
(* engine (src/src/rag/RAGEngine.ts), its explanation cache                *)
(* (src/unnamed/part_003, ExplanationCacheManager) and the two vector      *)
(* stores (src/src/storage/VectorStore.ts).                                *)
(*                                                                         *)
(* JavaScript strings are TLA+ strings; TLC evaluates Len, \o and SubSeq   *)
(* on them, and every text operation of the source (includes, split,       *)
(* trim, toLowerCase, replace) is built from those three.                  *)
(***************************************************************************)
EXTENDS Integers, Sequences, FiniteSets, TLC

\* ------------------------------------------------------------------------
\* Text primitives (JavaScript String methods used by the source)
\* ------------------------------------------------------------------------

LowerAlpha == "abcdefghijklmnopqrstuvwxyz"
UpperAlpha == "ABCDEFGHIJKLMNOPQRSTUVWXYZ"
Digits == "0123456789"

CharAt(s, i) == SubSeq(s, i, i)

CharSet(s) == {CharAt(s, i) : i \in 1..Len(s)}

IndexIn(c, alpha) == CHOOSE i \in 1..Len(alpha) : CharAt(alpha, i) = c

\* \w of a JavaScript regular expression
WordChars == CharSet(LowerAlpha) \cup CharSet(UpperAlpha) \cup CharSet(Digits) \cup {"_"}

\* \s of a JavaScript regular expression (the characters the model uses)
SpaceChars == {" ", "\n"}

\* [.!?] : the sentence separators of generateImprovedExplanation
SentenceSeps == {".", "!", "?"}

\* String.prototype.charCodeAt for the characters the model uses
charCodeAt(c) ==
    IF c \in CharSet(LowerAlpha) THEN 96 + IndexIn(c, LowerAlpha)
    ELSE IF c \in CharSet(UpperAlpha) THEN 64 + IndexIn(c, UpperAlpha)
    ELSE IF c \in CharSet(Digits) THEN 47 + IndexIn(c, Digits)
    ELSE CASE c = " " -> 32 [] c = "!" -> 33 [] c = "\"" -> 34 [] c = "(" -> 40
           [] c = ")" -> 41 [] c = "+" -> 43 [] c = "," -> 44 [] c = "-" -> 45
           [] c = "." -> 46 [] c = "/" -> 47 [] c = ":" -> 58 [] c = ";" -> 59 [] c = "=" -> 61
           [] c = "?" -> 63 [] c = "_" -> 95 [] c = "{" -> 123 [] c = "|" -> 124
           [] c = "}" -> 125

\* String.prototype.includes
Includes(s, sub) ==
    \/ Len(sub) = 0
    \/ \E i \in 1..(Len(s) - Len(sub) + 1) : SubSeq(s, i, i + Len(sub) - 1) = sub

\* String.prototype.startsWith
StartsWith(s, pre) == Len(pre) <= Len(s) /\ (Len(pre) = 0 \/ SubSeq(s, 1, Len(pre)) = pre)

\* concatenation of the strings f[lo], ..., f[hi]
RECURSIVE ConcatRange(_, _, _)
ConcatRange(f, lo, hi) ==
    IF lo > hi THEN ""
    ELSE IF lo = hi THEN f[lo]
    ELSE LET mid == (lo + hi) \div 2
         IN ConcatRange(f, lo, mid) \o ConcatRange(f, mid + 1, hi)

\* String.prototype.toLowerCase
toLowerCase(s) ==
    ConcatRange([i \in 1..Len(s) |->
                    IF CharAt(s, i) \in CharSet(UpperAlpha)
                    THEN CharAt(LowerAlpha, IndexIn(CharAt(s, i), UpperAlpha))
                    ELSE CharAt(s, i)], 1, Len(s))

\* the array with the elements f[1], ..., f[n] of a function on 1..n
ArrayOf(f) == SubSeq(f, 1, Len(f))

\* the Map with the entries of the function f
MapOf(f) == f @@ <<>>

MinOf(set) == CHOOSE i \in set : \A j \in set : i <= j
MaxOf(set) == CHOOSE i \in set : \A j \in set : i >= j

\* String.prototype.split(/[seps]+/): the pieces between maximal runs of
\* separators; a leading or trailing run leaves an empty first or last piece
Split(s, seps) ==
    IF Len(s) = 0 THEN <<"">>
    ELSE
    LET isSep(i) == CharAt(s, i) \in seps
        starts == {i \in 1..Len(s) : ~isSep(i) /\ (i = 1 \/ isSep(i - 1))}
        ends == {i \in 1..Len(s) : ~isSep(i) /\ (i = Len(s) \/ isSep(i + 1))}
        nth(set, k) == CHOOSE i \in set : Cardinality({j \in set : j < i}) = k - 1
        pieces == [k \in 1..Cardinality(starts) |-> SubSeq(s, nth(starts, k), nth(ends, k))]
    IN (IF isSep(1) THEN <<"">> ELSE <<>>) \o ArrayOf(pieces)
       \o (IF isSep(Len(s)) THEN <<"">> ELSE <<>>)

\* the characters of the model outside \w
NonWordChars == CharSet(" -,;:!?.\"(){}/+=|#") \cup {"\n"}

\* split(/\W+/)
SplitNonWord(s) == Split(s, NonWordChars)

\* String.prototype.trim
Trim(s) ==
    LET kept == {i \in 1..Len(s) : CharAt(s, i) \notin SpaceChars}
    IN IF kept = {} THEN "" ELSE SubSeq(s, MinOf(kept), MaxOf(kept))

\* s.replace(/[^\w\s]/g, ' ')
ReplaceNonWord(s) ==
    ConcatRange([i \in 1..Len(s) |->
                    IF CharAt(s, i) \in WordChars \cup SpaceChars THEN CharAt(s, i) ELSE " "],
                1, Len(s))

RECURSIVE Join(_, _)
\* Array.prototype.join
Join(parts, sep) ==
    IF Len(parts) = 0 THEN ""
    ELSE IF Len(parts) = 1 THEN parts[1]
    ELSE parts[1] \o sep \o Join(Tail(parts), sep)

Range(seq) == {seq[i] : i \in 1..Len(seq)}

Min(a, b) == IF a <= b THEN a ELSE b
Max(a, b) == IF a >= b THEN a ELSE b

\* s.replace(/([a-z])([A-Z])/g, '$1 $2'): a space before every upper-case
\* letter that follows a lower-case letter
SplitCamel(s) ==
    ConcatRange([i \in 1..Len(s) |->
                    IF /\ i > 1
                       /\ CharAt(s, i) \in CharSet(UpperAlpha)
                       /\ CharAt(s, i - 1) \in CharSet(LowerAlpha)
                    THEN " " \o CharAt(s, i) ELSE CharAt(s, i)], 1, Len(s))

\* Order of two strings by UTF-16 code units (the default Array.prototype.sort)
RECURSIVE CodeUnitLess(_, _)
CodeUnitLess(a, b) ==
    IF Len(b) = 0 THEN FALSE
    ELSE IF Len(a) = 0 THEN TRUE
    ELSE LET ca == charCodeAt(CharAt(a, 1))
             cb == charCodeAt(CharAt(b, 1))
         IN IF ca # cb THEN ca < cb
            ELSE CodeUnitLess(IF Len(a) = 1 THEN "" ELSE SubSeq(a, 2, Len(a)),
                              IF Len(b) = 1 THEN "" ELSE SubSeq(b, 2, Len(b)))

\* Collation order of the characters the model uses: white space, then
\* punctuation, then digits, then letters without regard to case
PunctOrder == " _-,;:!?.\"(){}/+=|"

CollationRank(c) ==
    IF c \in CharSet(LowerAlpha) THEN 200 + IndexIn(c, LowerAlpha)
    ELSE IF c \in CharSet(UpperAlpha) THEN 200 + IndexIn(c, UpperAlpha)
    ELSE IF c \in CharSet(Digits) THEN 100 + IndexIn(c, Digits)
    ELSE IndexIn(c, PunctOrder)

RECURSIVE PrimaryCompare(_, _, _)
PrimaryCompare(a, b, i) ==
    IF i > Len(a) /\ i > Len(b) THEN 0
    ELSE IF i > Len(a) THEN -1
    ELSE IF i > Len(b) THEN 1
    ELSE LET ra == CollationRank(CharAt(a, i))
             rb == CollationRank(CharAt(b, i))
         IN IF ra < rb THEN -1 ELSE IF ra > rb THEN 1 ELSE PrimaryCompare(a, b, i + 1)

RECURSIVE CaseCompare(_, _, _)
CaseCompare(a, b, i) ==
    IF i > Len(a) THEN 0
    ELSE LET la == CharAt(a, i) \in CharSet(LowerAlpha)
             lb == CharAt(b, i) \in CharSet(LowerAlpha)
         IN IF CharAt(a, i) = CharAt(b, i) THEN CaseCompare(a, b, i + 1)
            ELSE IF la /\ ~lb THEN -1 ELSE 1

\* String.prototype.localeCompare: letters compare without case first, and
\* on a tie the lower-case form sorts before the upper-case one
localeCompare(a, b) ==
    LET p == PrimaryCompare(a, b, 1) IN IF p # 0 THEN p ELSE CaseCompare(a, b, 1)

\* ------------------------------------------------------------------------
\* Values
\* ------------------------------------------------------------------------

\* A JavaScript value passed as the context argument.  type is the result of
\* typeof ("null" for null); selectedTextType and importsType are the typeof
\* of those two fields ("undefined" when the field is missing).  An absent
\* functionName or className is "": every use in the source tests it for
\* truthiness or replaces it by ''.
CodeContext(text, file, fn, cls, imps, around, lang) ==
    [type |-> "object", selectedTextType |-> "string", selectedText |-> text,
     fileName |-> file, functionName |-> fn, className |-> cls,
     importsType |-> "array", imports |-> imps,
     surroundingContext |-> around, language |-> lang]

\* A documentation chunk as the vector store returns it
DocumentationChunk(id, file, heading, content, words) ==
    [id |-> id, filePath |-> file, sectionHeading |-> heading,
     content |-> content, wordCount |-> words]

\* An ExplanationResult.  confidence is in units of 1/9000 (9000 is 1.0) and
\* a citation's relevanceScore in tenths, so that both stay integers.
ExplanationResult(explanation, citations, confidence, hasRelevantDocs) ==
    [explanation |-> explanation, citations |-> citations,
     confidence |-> confidence, hasRelevantDocs |-> hasRelevantDocs]

NotDocumented == "Not documented."

NoCodeSelected == "No code selected for explanation."

\* ------------------------------------------------------------------------
\* RAGEngine: pure helpers
\* ------------------------------------------------------------------------

\* Array.prototype.sort() of the imports: insertion into code-unit order
RECURSIVE sortStrings(_)
sortStrings(seq) ==
    IF Len(seq) <= 1 THEN seq
    ELSE LET rest == sortStrings(Tail(seq))
             x == Head(seq)
             before == SelectSeq(rest, LAMBDA y : CodeUnitLess(y, x))
             after == SelectSeq(rest, LAMBDA y : ~CodeUnitLess(y, x))
         IN before \o <<x>> \o after

\* One step of the string hash on a 32-bit integer kept as two 16-bit
\* halves <<high, low>>: hash = ((hash << 5) - hash) + char; hash & hash
hashStep(h, c) ==
    LET low == h[2] * 31 + c
        high == h[1] * 31 + (low \div 65536)
    IN <<high % 65536, low % 65536>>

hashChar(h, s, i) == IF i > Len(s) THEN h ELSE hashStep(h, charCodeAt(CharAt(s, i)))

\* the loop over the characters of the hash input, four characters a turn;
\* the test of the high half makes TLC compute each turn before the next
RECURSIVE hashFrom(_, _, _)
hashFrom(s, i, h) ==
    IF i > Len(s) THEN h
    ELSE LET next == hashChar(hashChar(hashChar(hashChar(h, s, i), s, i + 1), s, i + 2),
                              s, i + 3)
         IN IF next[1] < 65536 THEN hashFrom(s, i + 4, next) ELSE next

\* Math.abs of the 32-bit two's complement value <<high, low>>
absInt32(h) ==
    IF h[1] >= 32768
    THEN <<(65535 - h[1] + (IF h[2] = 0 THEN 1 ELSE 0)) % 65536, (65536 - h[2]) % 65536>>
    ELSE h

hashInput(context) ==
    Join(<<context.selectedText, context.fileName, context.functionName,
           context.className, Join(sortStrings(context.imports), ","),
           context.language>>, "|")

\* the context object of the caller after generateContextHash:
\* context.imports.sort() sorts the array in place
contextAfterHash(context) == [context EXCEPT !.imports = sortStrings(@)]

\* generateContextHash: the deduplication key.  toString(16) is one-to-one
\* on the absolute value, which stands for the hexadecimal string here.
generateContextHash(context) == absInt32(hashFrom(hashInput(context), 1, <<0, 0>>))

\* ExplanationCacheManager.generateCacheKey: SHA-256 of the joined
\* components; the digest is taken to be collision free, so the joined
\* string stands for it
generateCacheKey(context) ==
    Join(<<context.fileName, context.functionName, context.className,
           context.selectedText>>, "|")

QueryStopWords ==
    {"const", "let", "var", "function", "class", "return", "if", "else", "for", "while", "result"}

\* Array.prototype.slice(0, n)
Take(seq, n) == SubSeq(seq, 1, Min(n, Len(seq)))

buildQueryFromContext(context) ==
    LET selectedWords ==
            Take(SelectSeq(Split(toLowerCase(SplitCamel(ReplaceNonWord(context.selectedText))),
                                 SpaceChars),
                           LAMBDA w : Len(w) > 2 /\ w \notin QueryStopWords), 3)
        relevantImports ==
            Take(SelectSeq(context.imports,
                           LAMBDA imp : ~StartsWith(imp, ".") /\ ~Includes(imp, "node_modules")), 2)
        parts == (IF context.functionName # "" THEN <<context.functionName>> ELSE <<>>)
                 \o (IF context.className # "" THEN <<context.className>> ELSE <<>>)
                 \o selectedWords \o relevantImports
    IN Join(SelectSeq(parts, LAMBDA p : p # ""), " ")

\* ------------------------------------------------------------------------
\* SimpleVectorStore.searchSimilar: keyword scoring of the stored chunks
\* ------------------------------------------------------------------------

\* retrieval.similarityThreshold (default 0.3) scaled by 10 as the store
\* scales it, and retrieval.topK which the extension passes as maxResults
similarityThresholdTimes10 == 3
maxResults == 5

\* topK of retrieveRelevantDocsWithConsistentRanking
topK == 5

RECURSIVE SumSeq(_)
SumSeq(seq) == IF Len(seq) = 0 THEN 0 ELSE Head(seq) + SumSeq(Tail(seq))

keywordScore(chunk, query) ==
    LET queryLower == toLowerCase(query)
        queryWords == SelectSeq(Split(queryLower, SpaceChars), LAMBDA w : Len(w) > 2)
        contentLower == toLowerCase(chunk.content)
        headingLower == toLowerCase(chunk.sectionHeading)
    IN (IF Includes(contentLower, queryLower) THEN 10 ELSE 0)
       + (IF Includes(headingLower, queryLower) THEN 8 ELSE 0)
       + SumSeq([i \in 1..Len(queryWords) |->
                   (IF Includes(contentLower, queryWords[i]) THEN 1 ELSE 0)
                   + (IF Includes(headingLower, queryWords[i]) THEN 2 ELSE 0)])

\* Array.prototype.sort is stable: an element goes behind every element that
\* does not sort after it
RECURSIVE sortByScoreDescending(_)
sortByScoreDescending(items) ==
    IF Len(items) <= 1 THEN items
    ELSE LET x == Head(items)
             rest == sortByScoreDescending(Tail(items))
             ahead == SelectSeq(rest, LAMBDA y : y.score > x.score)
             behind == SelectSeq(rest, LAMBDA y : y.score <= x.score)
         IN ahead \o <<x>> \o behind

searchSimilar(stored, query, k) ==
    LET scoredChunks == ArrayOf([i \in 1..Len(stored) |->
                            [chunk |-> stored[i], score |-> keywordScore(stored[i], query)]])
        filtered == SelectSeq(scoredChunks, LAMBDA item : item.score >= similarityThresholdTimes10)
        ranked == Take(sortByScoreDescending(filtered), Min(k, maxResults))
    IN ArrayOf([i \in 1..Len(ranked) |-> ranked[i].chunk])

\* ------------------------------------------------------------------------
\* RAGEngine: ranking, enforcement, generation, grounding
\* ------------------------------------------------------------------------

compareByFileThenHeading(a, b) ==
    LET fileComparison == localeCompare(a.filePath, b.filePath)
    IN IF fileComparison # 0 THEN fileComparison
       ELSE localeCompare(a.sectionHeading, b.sectionHeading)

\* The stable sort by (filePath, sectionHeading) that the engine applies to
\* the retrieved chunks
RECURSIVE sortByFileThenHeading(_)
sortByFileThenHeading(docs) ==
    IF Len(docs) <= 1 THEN docs
    ELSE LET x == Head(docs)
             rest == sortByFileThenHeading(Tail(docs))
             ahead == SelectSeq(rest, LAMBDA y : compareByFileThenHeading(y, x) < 0)
             behind == SelectSeq(rest, LAMBDA y : compareByFileThenHeading(y, x) >= 0)
         IN ahead \o <<x>> \o behind

RelevanceStopWords == {"function", "class", "const", "let", "var"}

\* calculateRelevanceScore, times 50 so that the word-count bonus
\* Math.min(wordCount / 50, 2) stays an integer
calculateRelevanceScoreTimes50(context, doc) ==
    LET docContentLower == toLowerCase(doc.content)
        docHeadingLower == toLowerCase(doc.sectionHeading)
        hit(name) == Includes(docContentLower, toLowerCase(name))
                     \/ Includes(docHeadingLower, toLowerCase(name))
        selectedWords == SelectSeq(Split(toLowerCase(context.selectedText), SpaceChars),
                                   LAMBDA w : Len(w) > 3 /\ w \notin RelevanceStopWords)
    IN (IF context.functionName # "" /\ hit(context.functionName) THEN 500 ELSE 0)
       + (IF context.className # "" /\ hit(context.className) THEN 500 ELSE 0)
       + SumSeq([i \in 1..Len(context.imports) |->
                   IF Includes(docContentLower, toLowerCase(context.imports[i])) THEN 250 ELSE 0])
       + SumSeq([i \in 1..Len(selectedWords) |->
                   (IF Includes(docContentLower, selectedWords[i]) THEN 100 ELSE 0)
                   + (IF Includes(docHeadingLower, selectedWords[i]) THEN 150 ELSE 0)])
       + Min(doc.wordCount, 100)

GenericPhrases ==
    {"todo", "tbd", "to be determined", "placeholder", "coming soon",
     "under construction", "not implemented"}

\* minRelevanceThreshold 0.1 on the scale of calculateRelevanceScoreTimes50
minRelevanceThresholdTimes50 == 5

minContentLength == 20

\* enforceDocumentationRequirement: TRUE when hasValidDocumentation
enforceDocumentationRequirement(context, docs) ==
    LET relevantDocs ==
            SelectSeq(docs, LAMBDA doc :
                calculateRelevanceScoreTimes50(context, doc) >= minRelevanceThresholdTimes50)
        substantialDocs ==
            SelectSeq(relevantDocs, LAMBDA doc : Len(Trim(doc.content)) >= minContentLength)
        hasGenericContent ==
            \E i \in 1..Len(substantialDocs) :
                \E phrase \in GenericPhrases :
                    Includes(toLowerCase(substantialDocs[i].content), phrase)
    IN /\ Len(docs) # 0
       /\ Len(relevantDocs) # 0
       /\ Len(substantialDocs) # 0
       /\ ~(hasGenericContent /\ Len(substantialDocs) = 1)

\* generateImprovedExplanation on the sorted chunks
generateImprovedExplanation(context, docs) ==
    IF Len(docs) = 0 THEN NotDocumented
    ELSE
    LET intro == IF context.functionName # ""
                 THEN "The function \"" \o context.functionName \o "\" "
                 ELSE IF context.className # ""
                      THEN "The class \"" \o context.className \o "\" "
                      ELSE "This code "
        primaryDoc == docs[1]
        sentences == SelectSeq(Split(Trim(primaryDoc.content), SentenceSeps),
                               LAMBDA sn : Len(Trim(sn)) > 10)
        codeWords == SelectSeq(SplitNonWord(toLowerCase(context.selectedText)),
                               LAMBDA w : Len(w) > 2)
        matches(sn) == \E i \in 1..Len(codeWords) : Includes(toLowerCase(sn), codeWords[i])
        matching == SelectSeq(sentences, matches)
        bestSentence == IF Len(matching) > 0 THEN matching[1] ELSE sentences[1]
        body == IF Len(sentences) > 0
                THEN "is documented as: \"" \o Trim(bestSentence) \o "\"."
                ELSE "is mentioned in the " \o primaryDoc.sectionHeading \o " section."
    IN intro \o body \o " (Source: " \o primaryDoc.filePath \o " - "
             \o primaryDoc.sectionHeading \o ")"

\* generateDeterministicExplanation: sort a copy, then generate
generateDeterministicExplanation(context, docs) ==
    IF Len(docs) = 0 THEN NotDocumented
    ELSE generateImprovedExplanation(context, sortByFileThenHeading(docs))

GroundingStopWords ==
    {"this", "that", "with", "from", "they", "have", "been", "will", "were", "said",
     "each", "which", "their", "time", "would", "there", "could", "other", "more",
     "very", "what", "know", "just", "first", "into", "over", "think", "also", "your",
     "work", "life", "only", "can", "still", "should", "after", "being", "now", "made",
     "before", "here", "through", "when", "where", "much", "some", "these", "many",
     "then", "them", "well"}

\* validateExplanationGrounding: overlapRatio >= 0.3 as 10 * matching >= 3 * words
validateExplanationGrounding(explanation, docs) ==
    IF Includes(explanation, NotDocumented) THEN TRUE
    ELSE
    LET docContents == Join([i \in 1..Len(docs) |-> toLowerCase(docs[i].content)], " ")
        explanationWords ==
            SelectSeq(Split(ReplaceNonWord(toLowerCase(explanation)), SpaceChars),
                      LAMBDA w : Len(w) > 3 /\ w \notin GroundingStopWords)
        matchingWords ==
            Len(SelectSeq(explanationWords, LAMBDA w : Includes(docContents, w)))
    IN IF Len(explanationWords) = 0 THEN FALSE
       ELSE 10 * matchingWords >= 3 * Len(explanationWords)

\* extractCitationsWithConsistentOrdering: relevanceScore in tenths,
\* Math.max(0.1, 1.0 - index * 0.2) for the zero-based index.  With at most
\* topK = 5 chunks the scores 10, 8, 6, 4, 2 are distinct and already
\* descending, so the sort that follows leaves the order as it is.
extractCitationsWithConsistentOrdering(docs) ==
    ArrayOf([i \in 1..Len(docs) |->
        [filePath |-> docs[i].filePath, sectionHeading |-> docs[i].sectionHeading,
         relevanceScore |-> Max(1, 10 - (i - 1) * 2)]])

\* calculateDeterministicConfidence in units of 1/9000:
\* min(min(n / 3, 1) * min(avgWordCount / 50, 1.2), 1) with
\* avgWordCount = sum / n; n is at most 5 and divides 60
calculateDeterministicConfidence(docs) ==
    IF Len(docs) = 0 THEN 0
    ELSE LET n == Len(docs)
             sum == SumSeq([i \in 1..n |-> docs[i].wordCount])
         IN Min((Min(n, 3) * Min(sum, 60 * n) * 60) \div n, 9000)

\* A catch block that lets the error through to the caller, where
\* createErrorFallbackResponse builds a result
propagateError(errorMessage) == [rejected |-> TRUE, message |-> errorMessage]

\* createErrorFallbackResponse: the message chosen from the error text
createErrorFallbackResponse(errorMessage) ==
    LET has(w) == Includes(errorMessage, w)
        fallbackMessage ==
            IF has("network") \/ has("connection")
            THEN "Unable to access documentation. Please check your connection."
            ELSE IF has("storage") \/ has("database")
            THEN "Documentation storage error. Please re-index documentation."
            ELSE IF has("embedding") \/ has("vector")
            THEN "Embedding generation error. Please try again."
            ELSE IF has("timeout")
            THEN "Request timeout. Please try again with a smaller code selection."
            ELSE IF has("memory") \/ has("resource")
            THEN "Insufficient resources. Please try again with a smaller code selection."
            ELSE "Error generating explanation."
    IN ExplanationResult(fallbackMessage, <<>>, 0, FALSE)

\* ------------------------------------------------------------------------
\* Inputs and bounds
\* ------------------------------------------------------------------------

MaxCalls == 2
MaxTime == 2
MaxIndexPasses == 1

NullContext ==
    [type |-> "null", selectedTextType |-> "undefined", selectedText |-> "",
     fileName |-> "", functionName |-> "", className |-> "",
     importsType |-> "undefined", imports |-> <<>>,
     surroundingContext |-> "", language |-> ""]

\* a number passed where the context object is expected
NumberContext == [NullContext EXCEPT !.type = "number"]

SumContext ==
    CodeContext("calculateSum(a, b)", "t.js", "calculateSum", "", <<>>, "", "js")

\* the same selection as SumContext seen with other surrounding lines
SumContextElsewhere == [SumContext EXCEPT !.surroundingContext = "let total = 0"]

ParseContext == CodeContext("parse(x)", "t.js", "", "", <<>>, "", "js")

\* a selection in a file whose imports are not in alphabetical order
ImportsContext == CodeContext("parse(x)", "t.js", "", "", <<"path", "fs">>, "", "js")

MissingTextContext == [SumContext EXCEPT !.selectedTextType = "undefined", !.selectedText = ""]

NumberTextContext == [SumContext EXCEPT !.selectedTextType = "number", !.selectedText = ""]

EmptyTextContext == [SumContext EXCEPT !.selectedText = ""]

BlankTextContext == [SumContext EXCEPT !.selectedText = " "]

MissingImportsContext == [SumContext EXCEPT !.importsType = "undefined"]

ValidContexts == {SumContext, SumContextElsewhere, ParseContext, ImportsContext}

Inputs ==
    ValidContexts \cup {NullContext, NumberContext, MissingTextContext, NumberTextContext,
                        EmptyTextContext, BlankTextContext, MissingImportsContext}

SumChunk ==
    DocumentationChunk("readme-md-calculatesum", "README.md", "calculateSum",
        "The calculateSum function adds two numbers and returns the total.", 10)

SumChunkRevised ==
    DocumentationChunk("readme-md-calculatesum", "README.md", "calculateSum",
        "The calculateSum function multiplies two numbers since version two.", 10)

StubChunk == DocumentationChunk("docs-api-md-sum", "docs/api.md", "sum", "calculateSum adds.", 2)

ParseChunk ==
    DocumentationChunk("docs-api-md-parse", "docs/api.md", "parse",
        "The parse function reads the input text and builds a tree.", 11)

\* a section whose only sentence is shorter than generateImprovedExplanation asks for
TinyChunk == DocumentationChunk("docs-api-md-intro", "docs/api.md", "intro", "See parse.", 2)

\* two sections that a generic phrase of enforceDocumentationRequirement
\* occurs in
PlaceholderChunk ==
    DocumentationChunk("readme-md-calculatesum", "README.md", "calculateSum",
        "TODO: describe what the calculateSum function does.", 7)

ComingSoonChunk ==
    DocumentationChunk("docs-api-md-sum", "docs/api.md", "sum",
        "The calculateSum function is coming soon.", 6)

\* what one pass of the indexer can find in the workspace
Workspaces ==
    {<<>>, <<SumChunk>>, <<SumChunkRevised, ParseChunk>>, <<SumChunk, StubChunk>>,
     <<TinyChunk, ParseChunk>>, <<PlaceholderChunk, ComingSoonChunk>>}

\* ------------------------------------------------------------------------
\* Tables of the pure functions over the inputs above.  TLC evaluates a
\* definition without parameters once; the actions look the values up
\* instead of redoing the text processing in every state.
\* ------------------------------------------------------------------------

contextHashOf == MapOf([c \in ValidContexts |-> generateContextHash(c)])

cacheKeyOf == MapOf([c \in ValidContexts |-> generateCacheKey(c)])

\* what searchSimilar returns for each index content and context
retrievedFor ==
    MapOf([w \in Workspaces |->
        MapOf([c \in ValidContexts |->
            searchSimilar(w, buildQueryFromContext(contextAfterHash(c)), topK)])])

\* The arrays that searchSimilar of the SQLite store can resolve with.
\* Which rows pass the similarity threshold, and in which order, depends on
\* the cosine similarity of the embeddings, which is left open: any
\* arrangement of at most min(topK, maxResults) of the rows.
Arrangements(table) ==
    {found \in UNION {[1..n -> table] : n \in 0..Min(Cardinality(table), Min(topK, maxResults))} :
        \A i, j \in 1..Len(found) : found[i] = found[j] => i = j}

RetrievedLists ==
    {retrievedFor[w][c] : w \in Workspaces, c \in ValidContexts} \cup {<<>>}
    \cup UNION {Arrangements(Range(w)) : w \in Workspaces}

\* the retrieved chunks after the sort of retrieveRelevantDocsWithConsistentRanking
rankedDocs == MapOf([d \in RetrievedLists |-> sortByFileThenHeading(d)])

RankedLists == {rankedDocs[d] : d \in RetrievedLists}

hasValidDocumentation ==
    MapOf([c \in ValidContexts |->
        MapOf([d \in RankedLists |-> enforceDocumentationRequirement(c, d)])])

Rejection == ExplanationResult(NotDocumented, <<>>, 0, FALSE)

\* processExplanationRequest without the grounding check of lines 168-180:
\* whatever was generated is returned as a documented explanation
ungroundedResult(context, docs) ==
    ExplanationResult(generateDeterministicExplanation(context, docs),
                      extractCitationsWithConsistentOrdering(docs),
                      calculateDeterministicConfidence(docs), TRUE)

\* lines 164-193 of processExplanationRequest: generation, grounding check,
\* citations and confidence
groundedResult(context, docs) ==
    LET explanation == generateDeterministicExplanation(context, docs)
    IN IF validateExplanationGrounding(explanation, docs)
       THEN ExplanationResult(explanation, extractCitationsWithConsistentOrdering(docs),
                              calculateDeterministicConfidence(docs), TRUE)
       ELSE Rejection

groundedResultOf ==
    MapOf([c \in ValidContexts |-> MapOf([d \in RankedLists |-> groundedResult(c, d)])])

\* ------------------------------------------------------------------------
\* ExplanationCacheManager (src/unnamed/part_003)
\* ------------------------------------------------------------------------

\* The clock counts quarters of an hour; defaultTTL is the 30 minutes of
\* ExplanationCacheManager.defaultTTL on that clock
defaultTTL == 2

EmptyCache == <<>>

\* an expiry check that still accepts an entry at its expiry time
isValidEntryInclusive(entry, time) == time <= entry.timestamp + entry.ttl

\* isValidEntry: now < timestamp + ttl
isValidEntry(entry, time) == time < entry.timestamp + entry.ttl

\* store(context, explanation, citations): ttl || defaultTTL
cacheStore(cache, context, explanation, citations, time) ==
    LET key == cacheKeyOf[context]
        cacheEntry == [key |-> key, explanation |-> explanation, citations |-> citations,
                       timestamp |-> time, ttl |-> defaultTTL, reindexed |-> FALSE,
                       indexedSince |-> FALSE]
    IN (key :> cacheEntry) @@ cache

\* retrieve(context) finds an entry that is present and not expired
cacheHit(cache, context, time) ==
    /\ cacheKeyOf[context] \in DOMAIN cache
    /\ isValidEntry(cache[cacheKeyOf[context]], time)

\* the cache after retrieve(context): an expired entry is deleted by the read
cacheAfterRetrieve(cache, context, time) ==
    LET key == cacheKeyOf[context]
    IN IF key \in DOMAIN cache /\ ~isValidEntry(cache[key], time)
       THEN MapOf([k \in DOMAIN cache \ {key} |-> cache[k]])
       ELSE cache

\* an invalidation that looks at the first citation of an entry only
invalidateFileByFirstCitation(cache, filePath) ==
    MapOf([k \in {q \in DOMAIN cache : Len(cache[q].citations) = 0
                                        \/ cache[q].citations[1].filePath # filePath}
              |-> cache[k]])

\* invalidateFile(filePath)
invalidateFile(cache, filePath) ==
    LET hasFileReference(entry) ==
            \E i \in 1..Len(entry.citations) : entry.citations[i].filePath = filePath
    IN MapOf([k \in {q \in DOMAIN cache : ~hasFileReference(cache[q])} |-> cache[k]])

\* cleanupExpired()
cleanupExpired(cache, time) ==
    MapOf([k \in {q \in DOMAIN cache : isValidEntry(cache[q], time)} |-> cache[k]])


MaxIterations == 2

\* ------------------------------------------------------------------------
\* State
\* ------------------------------------------------------------------------

VARIABLES
    chunks,                \* SimpleVectorStore.chunks, the index the engine queries
    now,                   \* the clock read by new Date()
    cacheManager,          \* RAGEngine.cacheManager: which cache manager object
    caches,                \* the Map of every cache manager object
    requestDeduplication,  \* RAGEngine.requestDeduplication: hash -> owner call
    calls,                 \* every explainCode / validateDeterministicBehavior call
    indexPasses            \* number of indexWorkspace passes so far

engineVars ==
    <<chunks, now, cacheManager, caches, requestDeduplication, calls, indexPasses>>

VARIABLES
    simpleInitialized,     \* SimpleVectorStore.isInitialized
    storageFile,           \* documentation-chunks.json, the persisted index
    db,                    \* VectorStore.db of the SQLite store
    isInitialized,         \* VectorStore.isInitialized
    initializationPromise, \* VectorStore.initializationPromise
    tableExists,           \* the table documentation_chunks exists
    rows,                  \* the rows of documentation_chunks
    storeCalls,            \* every call made on one of the two stores
    indexLoads,            \* number of loadChunks runs of the SimpleVectorStore
    databaseOpens          \* number of sqlite3.Database opens of the VectorStore

storeVars ==
    <<simpleInitialized, storageFile, db, isInitialized, initializationPromise,
      tableExists, rows, storeCalls, indexLoads, databaseOpens>>

VARIABLES
    hovers                 \* every provideHover request of the HoverProvider

VARIABLES
    uiProvider             \* the UIProvider: its fields, the timers and the clock

\* documentation-chunks.json does not exist
MissingFile == "missing"

\* The UIProvider after its constructor.  selectionChangeListener: the
\* field holds a listener that is not disposed; debounceTimer: the handle in
\* the field, 0 for undefined; timers: the timeouts that are set and have
\* neither run nor been cleared, by handle; handles: the number of setTimeout
\* calls so far; time: the clock in milliseconds; log: the calls of
\* registerDynamicUpdates, unregisterDynamicUpdates, handleSelectionChange
\* and updateExplanationForSelection in their order.
UIProviderConstructed ==
    [selectionChangeListener |-> FALSE, debounceTimer |-> 0, timers |-> <<>>,
     handles |-> 0, time |-> 0, log |-> <<>>]

\* the SQLite store as its constructor leaves it
SqliteConstructed ==
    /\ db = "null"
    /\ isInitialized = FALSE
    /\ initializationPromise = "null"
    /\ tableExists = FALSE
    /\ rows = {}
    /\ databaseOpens = 0

NoResult == ExplanationResult("", <<>>, -1, FALSE)

NoHash == <<-1, -1>>

\* message of the error a failing cache manager throws
CacheErrorMessage == "cache storage failure"

\* what the catch block of processExplanationRequest returns for that error
CacheFailureResponse == createErrorFallbackResponse(CacheErrorMessage)

\* A call and its local state.  hit, hitReindexed and hitIndexedSince record
\* how the call was answered: from a cache entry, from one that cites a file
\* indexed again since the entry was stored (the entry's history field
\* reindexed), and from one stored before an index pass that has completed
\* since (the entry's history field indexedSince).  clearedSince and
\* invalidatedSince record what happened while the call computed:
\* clearCache() returned, invalidateCacheForFile(path) returned for these
\* paths.  context is the argument as the caller passed it, contextAfter
\* the same object as the call leaves it.
NewCall(kind, context) ==
    [kind |-> kind, context |-> context, contextAfter |-> context, pc |-> "done", hash |-> NoHash, leader |-> 0,
     docs |-> <<>>, failed |-> FALSE, searches |-> 0, hit |-> FALSE, hitReindexed |-> FALSE,
     hitIndexedSince |-> FALSE, clearedSince |-> FALSE, invalidatedSince |-> {},
     result |-> NoResult, outcome |-> NoResult,
     results |-> <<>>, iterations |-> 0, originalCache |-> -1, verdict |-> FALSE]

\* processExplanationRequest up to its first await: the cache lookup and,
\* on a miss, the call of searchSimilar, whose promise settles later.  The
\* keyword search of SimpleVectorStore has no await of its own: it reads
\* this.chunks when it is called.  cacheThrows: the cache manager throws;
\* storeThrows: searchSimilar throws; found: what searchSimilar resolves
\* with otherwise.
BeginProcessWith(call, manager, cacheThrows, storeThrows, found) ==
    IF cacheThrows
    THEN [call EXCEPT !.pc = "settled", !.result = CacheFailureResponse]
    ELSE IF cacheHit(manager, call.context, now)
    THEN LET cachedResult == manager[cacheKeyOf[call.context]]
         IN [call EXCEPT !.pc = "settled", !.hit = TRUE,
                         !.hitReindexed = cachedResult.reindexed,
                         !.hitIndexedSince = cachedResult.indexedSince,
                         !.result = ExplanationResult(cachedResult.explanation,
                                                      cachedResult.citations, 9000,
                                                      Len(cachedResult.citations) > 0)]
    ELSE [call EXCEPT !.pc = "retrieving", !.searches = @ + 1, !.failed = storeThrows,
                      !.docs = IF storeThrows THEN <<>> ELSE found]

\* processExplanationRequest of an engine on the SimpleVectorStore
BeginProcess(call, manager, cacheThrows, storeThrows) ==
    BeginProcessWith(call, manager, cacheThrows, storeThrows,
                     retrievedFor[chunks][call.context])

\* the Map of a cache manager after the lookup of BeginProcess
ManagerAfterBegin(call, manager, cacheThrows) ==
    IF cacheThrows THEN manager ELSE cacheAfterRetrieve(manager, call.context, now)

\* the end of processExplanationRequest: store the result in the cache and
\* return it; a throwing store lands in the catch and yields the fallback.
\* The history of what happened while the call computed ends here.
SettleWith(call, result, cacheThrows) ==
    [call EXCEPT !.pc = "settled", !.clearedSince = FALSE, !.invalidatedSince = {},
                 !.result = IF cacheThrows THEN CacheFailureResponse ELSE result]

CachesAfterStore(call, result, cacheThrows) ==
    IF cacheThrows THEN caches
    ELSE [caches EXCEPT ![cacheManager] =
            cacheStore(@, call.context, result.explanation, result.citations, now)]

\* The engine of the extension: activate() has initialized the
\* SimpleVectorStore, which loaded the persisted index
Init ==
    /\ chunks \in Workspaces
    /\ simpleInitialized = TRUE
    /\ storageFile = chunks
    /\ indexLoads = 1
    /\ storeCalls = <<>>
    /\ SqliteConstructed
    /\ now = 0
    /\ cacheManager = 0
    /\ caches = (0 :> EmptyCache)
    /\ requestDeduplication = <<>>
    /\ calls = <<>>
    /\ indexPasses = 0
    /\ hovers = <<>>
    /\ uiProvider = UIProviderConstructed

\* ------------------------------------------------------------------------
\* RAGEngine.explainCode
\* ------------------------------------------------------------------------

NullMessage == createErrorFallbackResponse("Cannot read properties of null (reading fileName)")
InvalidContextMessage == createErrorFallbackResponse("Invalid code context provided")
TextRequiredMessage ==
    createErrorFallbackResponse("Selected text is required and must be a string")
ImportsMessage == createErrorFallbackResponse("Cannot read properties of undefined (reading sort)")

\* The call of explainCode up to its first await; found is what
\* searchSimilar of the vector store resolves with.  The caller says what
\* becomes of hovers.
ExplainCodeFrom(context, cacheThrows, storeThrows, found) ==
    /\ Len(calls) < MaxCalls
    /\ LET id == Len(calls) + 1
           call == NewCall("explain", context)
           fail(response) == [call EXCEPT !.outcome = response]
       IN
       IF context.type = "null"
       THEN /\ calls' = Append(calls, fail(NullMessage))
            /\ UNCHANGED <<caches, requestDeduplication>>
       ELSE IF context.type # "object"
       THEN /\ calls' = Append(calls, fail(InvalidContextMessage))
            /\ UNCHANGED <<caches, requestDeduplication>>
       ELSE IF context.selectedTextType # "string" \/ Len(context.selectedText) = 0
       THEN /\ calls' = Append(calls, fail(TextRequiredMessage))
            /\ UNCHANGED <<caches, requestDeduplication>>
       ELSE IF Len(Trim(context.selectedText)) = 0
       THEN /\ calls' = Append(calls,
                [call EXCEPT !.outcome = ExplanationResult(NoCodeSelected, <<>>, 0, FALSE)])
            /\ UNCHANGED <<caches, requestDeduplication>>
       ELSE IF context.importsType # "array"
       THEN /\ calls' = Append(calls, fail(ImportsMessage))
            /\ UNCHANGED <<caches, requestDeduplication>>
       ELSE LET contextHash == contextHashOf[context]
                hashed == [call EXCEPT !.hash = contextHash,
                                       !.contextAfter = contextAfterHash(context)]
            IN
            IF contextHash \in DOMAIN requestDeduplication
            THEN /\ calls' = Append(calls, [hashed EXCEPT !.pc = "joined",
                                               !.leader = requestDeduplication[contextHash]])
                 /\ UNCHANGED <<caches, requestDeduplication>>
            ELSE /\ calls' = Append(calls, BeginProcessWith(hashed,
                                                              caches[cacheManager],
                                                              cacheThrows, storeThrows, found))
                 /\ caches' = [caches EXCEPT
                                  ![cacheManager] = ManagerAfterBegin(call, @, cacheThrows)]
                 /\ requestDeduplication' = (contextHash :> id) @@ requestDeduplication
    /\ UNCHANGED <<storeVars, chunks, now, cacheManager, indexPasses>>

\* an explainCode whose store has not loaded its index when the first call
\* arrives: that call retrieves nothing
ExplainCodeColdStart(context, cacheThrows, storeThrows) ==
    /\ ExplainCodeFrom(context, cacheThrows, storeThrows,
                       IF Len(calls) = 0 THEN <<>> ELSE retrievedFor[chunks][context])
    /\ UNCHANGED <<hovers, uiProvider>>

\* explainCode of the engine that the extension builds on the
\* SimpleVectorStore
ExplainCode(context, cacheThrows, storeThrows) ==
    /\ ExplainCodeFrom(context, cacheThrows, storeThrows, retrievedFor[chunks][context])
    /\ UNCHANGED <<hovers, uiProvider>>

\* explainCode of an engine built on the SQLite VectorStore
ExplainCodeSqlite(context, found) ==
    /\ found \in Arrangements(rows)
    /\ ExplainCodeFrom(context, FALSE, FALSE, found)
    /\ UNCHANGED <<hovers, uiProvider>>

\* processExplanationRequest resumes after searchSimilar settled: ranking and
\* enforcement.  A failed search was caught in
\* retrieveRelevantDocsWithConsistentRanking and replaced by no documents.
AfterRetrieval(i, cacheThrows) ==
    /\ i \in 1..Len(calls)
    /\ calls[i].pc = "retrieving"
    /\ LET call == calls[i]
           relevantDocs == IF call.failed THEN <<>> ELSE rankedDocs[call.docs]
       IN IF ~hasValidDocumentation[call.context][relevantDocs]
          THEN /\ calls' = [calls EXCEPT ![i] = SettleWith(call, Rejection, cacheThrows)]
               /\ caches' = CachesAfterStore(call, Rejection, cacheThrows)
          ELSE /\ ~cacheThrows
               /\ calls' = [calls EXCEPT ![i] = [call EXCEPT !.pc = "generating",
                                                              !.docs = relevantDocs]]
               /\ UNCHANGED caches
    /\ UNCHANGED <<uiProvider, hovers, storeVars, chunks, now, cacheManager, requestDeduplication, indexPasses>>

\* processExplanationRequest resumes after generateDeterministicExplanation:
\* grounding check, citations, confidence, cache store
AfterGeneration(i, cacheThrows) ==
    /\ i \in 1..Len(calls)
    /\ calls[i].pc = "generating"
    /\ LET call == calls[i]
           result == groundedResultOf[call.context][call.docs]
       IN /\ calls' = [calls EXCEPT ![i] = SettleWith(call, result, cacheThrows)]
          /\ caches' = CachesAfterStore(call, result, cacheThrows)
    /\ UNCHANGED <<uiProvider, hovers, storeVars, chunks, now, cacheManager, requestDeduplication, indexPasses>>

\* An owner that returns without the delete of its finally block
OwnerReturnsKeepingEntry(i) ==
    /\ i \in 1..Len(calls)
    /\ calls[i].kind = "explain"
    /\ calls[i].pc = "settled"
    /\ calls' = [calls EXCEPT ![i] = [@ EXCEPT !.pc = "done",
                                               !.outcome = calls[i].result]]
    /\ UNCHANGED <<uiProvider, hovers, storeVars, chunks, now, cacheManager, caches, requestDeduplication,
                   indexPasses>>

\* explainCode resumes in the call that owns the registry entry: the finally
\* block deletes the entry and the result is returned
OwnerReturns(i) ==
    /\ i \in 1..Len(calls)
    /\ calls[i].kind = "explain"
    /\ calls[i].pc = "settled"
    /\ calls' = [calls EXCEPT ![i] = [@ EXCEPT !.pc = "done",
                                               !.outcome = calls[i].result]]
    /\ requestDeduplication' =
           MapOf([h \in DOMAIN requestDeduplication \ {calls[i].hash} |->
                     requestDeduplication[h]])
    /\ UNCHANGED <<uiProvider, hovers, storeVars, chunks, now, cacheManager, caches, indexPasses>>

\* A call that, after the wait for the ongoing request, runs
\* processExplanationRequest itself
JoinerRecomputes(i) ==
    /\ i \in 1..Len(calls)
    /\ calls[i].pc = "joined"
    /\ calls[calls[i].leader].pc \in {"settled", "done"}
    /\ calls' = [calls EXCEPT ![i] = BeginProcess(@, caches[cacheManager], FALSE, FALSE)]
    /\ caches' = [caches EXCEPT ![cacheManager] = ManagerAfterBegin(calls[i], @, FALSE)]
    /\ UNCHANGED <<uiProvider, hovers, storeVars, chunks, now, cacheManager, requestDeduplication, indexPasses>>

\* explainCode resumes in a call that awaited an ongoing identical request
JoinerReturns(i) ==
    /\ i \in 1..Len(calls)
    /\ calls[i].pc = "joined"
    /\ calls[calls[i].leader].pc \in {"settled", "done"}
    /\ calls' = [calls EXCEPT ![i] = [@ EXCEPT !.pc = "done",
                                               !.outcome = calls[calls[i].leader].result]]
    /\ UNCHANGED <<uiProvider, hovers, storeVars, chunks, now, cacheManager, caches, requestDeduplication, indexPasses>>

\* ------------------------------------------------------------------------
\* RAGEngine.validateDeterministicBehavior
\* ------------------------------------------------------------------------

\* The call up to its first await: the engine's cache manager is replaced by
\* a new one and the first processExplanationRequest starts
ValidateDeterministicBehavior(context, iterations) ==
    /\ Len(calls) < MaxCalls
    /\ LET id == Len(calls) + 1
           call == [NewCall("validate", context) EXCEPT
                       !.hash = contextHashOf[context], !.iterations = iterations,
                       !.originalCache = cacheManager]
       IN /\ calls' = Append(calls, BeginProcess(call, EmptyCache, FALSE, FALSE))
          /\ cacheManager' = id
          /\ caches' = (id :> EmptyCache) @@ caches
    /\ UNCHANGED <<uiProvider, hovers, storeVars, chunks, now, requestDeduplication, indexPasses>>

\* |a - b| > 0.001 on confidences in units of 1/9000
confidenceDiffers(a, b) == (IF a >= b THEN a - b ELSE b - a) > 9

sameResults(results) ==
    \A k \in 2..Len(results) :
        /\ results[1].explanation = results[k].explanation
        /\ results[1].citations = results[k].citations
        /\ ~confidenceDiffers(results[1].confidence, results[k].confidence)
        /\ results[1].hasRelevantDocs = results[k].hasRelevantDocs

\* The loop resumes after one processExplanationRequest settled: the next
\* iteration starts, or the results are compared and the finally block puts
\* the saved cache manager back
ValidateResumes(i) ==
    /\ i \in 1..Len(calls)
    /\ calls[i].kind = "validate"
    /\ calls[i].pc = "settled"
    /\ LET call == [calls[i] EXCEPT !.results = Append(@, calls[i].result)]
       IN IF Len(call.results) < call.iterations
          THEN /\ calls' = [calls EXCEPT
                               ![i] = BeginProcess(call, caches[cacheManager], FALSE, FALSE)]
               /\ caches' = [caches EXCEPT ![cacheManager] = ManagerAfterBegin(call, @, FALSE)]
               /\ UNCHANGED cacheManager
          ELSE /\ calls' = [calls EXCEPT ![i] = [call EXCEPT !.pc = "done",
                                                    !.verdict = sameResults(call.results)]]
               /\ cacheManager' = call.originalCache
               /\ UNCHANGED caches
    /\ UNCHANGED <<uiProvider, hovers, storeVars, chunks, now, requestDeduplication, indexPasses>>

\* ------------------------------------------------------------------------
\* Cache maintenance, indexing and the clock
\* ------------------------------------------------------------------------

\* the history fields of the calls that compute while the cache is cleared
\* or invalidated for a file
inFlight(call) == call.pc \in {"retrieving", "generating"}

markCleared(cs) ==
    ArrayOf([i \in 1..Len(cs) |->
        IF inFlight(cs[i]) THEN [cs[i] EXCEPT !.clearedSince = TRUE] ELSE cs[i]])

markInvalidated(cs, filePath) ==
    ArrayOf([i \in 1..Len(cs) |->
        IF inFlight(cs[i]) THEN [cs[i] EXCEPT !.invalidatedSince = @ \cup {filePath}]
        ELSE cs[i]])

\* RAGEngine.clearCache.  The calls in flight are not told: only their
\* history field changes.
ClearCache ==
    /\ caches' = [caches EXCEPT ![cacheManager] = EmptyCache]
    /\ calls' = markCleared(calls)
    /\ (caches' # caches \/ calls' # calls)
    /\ UNCHANGED <<uiProvider, hovers, storeVars, chunks, now, cacheManager, requestDeduplication, indexPasses>>

\* RAGEngine.invalidateCacheForFile
InvalidateCacheForFile(filePath) ==
    /\ caches' = [caches EXCEPT ![cacheManager] = invalidateFile(@, filePath)]
    /\ calls' = markInvalidated(calls, filePath)
    /\ (caches' # caches \/ calls' # calls)
    /\ UNCHANGED <<uiProvider, hovers, storeVars, chunks, now, cacheManager, requestDeduplication, indexPasses>>

\* RAGEngine.cleanupCache
CleanupCache ==
    /\ caches' = [caches EXCEPT ![cacheManager] = cleanupExpired(@, now)]
    /\ caches' # caches
    /\ UNCHANGED <<uiProvider, hovers, storeVars, chunks, now, cacheManager, requestDeduplication, calls, indexPasses>>

FilesOf(workspace) == {workspace[i].filePath : i \in 1..Len(workspace)}

\* the history fields of the cache entries after the files were indexed again
markReindexed(cache, files) ==
    MapOf([k \in DOMAIN cache |->
              IF \E i \in 1..Len(cache[k].citations) : cache[k].citations[i].filePath \in files
              THEN [cache[k] EXCEPT !.reindexed = TRUE, !.indexedSince = TRUE]
              ELSE [cache[k] EXCEPT !.indexedSince = TRUE]])

\* DocumentationIndexer.indexWorkspace as the index command runs it: every
\* markdown file of the workspace is processed again and the chunks are
\* handed to storeChunks, which replaces the index.  Nothing in the pass
\* touches the engine or its cache: only the history fields change.
IndexWorkspace(workspace) ==
    /\ indexPasses < MaxIndexPasses
    /\ chunks' = workspace
    /\ storageFile' = workspace
    /\ indexPasses' = indexPasses + 1
    /\ caches' = MapOf([m \in DOMAIN caches |-> markReindexed(caches[m], FilesOf(workspace))])
    /\ UNCHANGED <<simpleInitialized, db, isInitialized, initializationPromise, tableExists,
                   rows, storeCalls, indexLoads, databaseOpens>>
    /\ UNCHANGED <<now, cacheManager, requestDeduplication, calls, hovers, uiProvider>>

\* time passes
Tick ==
    /\ now < MaxTime
    /\ now' = now + 1
    /\ UNCHANGED <<uiProvider, hovers, storeVars, chunks, cacheManager, caches, requestDeduplication, calls, indexPasses>>

vars == <<engineVars, storeVars, hovers, uiProvider>>

\* explainCode on every input, with a cache manager or a vector store that
\* may throw, cache maintenance and the clock
Next ==
    \/ \E context \in Inputs : \E cacheThrows, storeThrows \in BOOLEAN :
           ExplainCode(context, cacheThrows, storeThrows)
    \/ \E i \in 1..MaxCalls : \E cacheThrows \in BOOLEAN : AfterRetrieval(i, cacheThrows)
    \/ \E i \in 1..MaxCalls : \E cacheThrows \in BOOLEAN : AfterGeneration(i, cacheThrows)
    \/ \E i \in 1..MaxCalls : OwnerReturns(i)
    \/ \E i \in 1..MaxCalls : JoinerReturns(i)
    \/ ClearCache
    \/ \E f \in {"README.md", "docs/api.md"} : InvalidateCacheForFile(f)
    \/ CleanupCache
    \/ Tick

Spec == Init /\ [][Next]_vars

\* explainCode and validateDeterministicBehavior side by side
NextValidate ==
    \/ \E context \in ValidContexts : ExplainCode(context, FALSE, FALSE)
    \/ \E i \in 1..MaxCalls : AfterRetrieval(i, FALSE)
    \/ \E i \in 1..MaxCalls : AfterGeneration(i, FALSE)
    \/ \E i \in 1..MaxCalls : OwnerReturns(i)
    \/ \E i \in 1..MaxCalls : JoinerReturns(i)
    \/ \E context \in ValidContexts : \E n \in 1..MaxIterations :
           ValidateDeterministicBehavior(context, n)
    \/ \E i \in 1..MaxCalls : ValidateResumes(i)

SpecValidate == Init /\ [][NextValidate]_vars

\* explainCode and the index command side by side
NextIndex ==
    \/ \E context \in ValidContexts : ExplainCode(context, FALSE, FALSE)
    \/ \E i \in 1..MaxCalls : AfterRetrieval(i, FALSE)
    \/ \E i \in 1..MaxCalls : AfterGeneration(i, FALSE)
    \/ \E i \in 1..MaxCalls : OwnerReturns(i)
    \/ \E i \in 1..MaxCalls : JoinerReturns(i)
    \/ \E w \in Workspaces : IndexWorkspace(w)

SpecIndex == Init /\ [][NextIndex]_vars

\* an engine on an initialized SQLite store that holds an index
InitSqliteEngine ==
    /\ chunks = <<>>
    /\ simpleInitialized = FALSE
    /\ storageFile = <<>>
    /\ indexLoads = 0
    /\ storeCalls = <<>>
    /\ db = "open"
    /\ isInitialized = TRUE
    /\ initializationPromise = "resolved"
    /\ tableExists = TRUE
    /\ rows \in {Range(w) : w \in Workspaces}
    /\ databaseOpens = 1
    /\ now = 0
    /\ cacheManager = 0
    /\ caches = (0 :> EmptyCache)
    /\ requestDeduplication = <<>>
    /\ calls = <<>>
    /\ indexPasses = 0
    /\ hovers = <<>>
    /\ uiProvider = UIProviderConstructed

\* explainCode on an engine whose vector store is the SQLite store
NextSqliteEngine ==
    \/ \E context \in ValidContexts : \E found \in RetrievedLists :
           ExplainCodeSqlite(context, found)
    \/ \E i \in 1..MaxCalls : AfterRetrieval(i, FALSE)
    \/ \E i \in 1..MaxCalls : AfterGeneration(i, FALSE)
    \/ \E i \in 1..MaxCalls : OwnerReturns(i)
    \/ \E i \in 1..MaxCalls : JoinerReturns(i)

SpecSqliteEngine == InitSqliteEngine /\ [][NextSqliteEngine]_vars

\* ------------------------------------------------------------------------
\* The two vector stores of src/storage/VectorStore.ts: their calls
\* ------------------------------------------------------------------------

MaxStoreCalls == 3

\* the arrays handed to storeChunks
StoreInputs == {<<SumChunk>>, <<SumChunk, ParseChunk>>}

\* the persisted index that the SimpleVectorStore may find on disk
StoredFiles == {MissingFile, <<SumChunk>>}

\* an initialize() call on the store has resolved
InitializeCompleted(store) ==
    \E j \in 1..Len(storeCalls) :
        /\ storeCalls[j].store = store
        /\ storeCalls[j].op = "initialize"
        /\ storeCalls[j].outcome = "resolved"

\* A call on a store.  ready: an initialize() of the store had resolved when
\* the call was made; wrote: the call changed the persisted index; value:
\* the size of the result the call returned; batch: the chunks handed to
\* storeChunks; stored: the chunks of the batch that the call stored;
\* workspace: the markdown files that an indexing pass found; failing: the
\* positions among the valid chunks whose embedding or INSERT failed;
\* query and topK: the arguments of searchSimilar; searched: the chunks that
\* searchSimilar went through, in that order; similarity: their similarity
\* to the query, times 10; results: the chunks that searchSimilar returned;
\* data: the content of the file that readFile delivered or that writeFile
\* was given.
NewStoreCall(store, op) ==
    [store |-> store, op |-> op, pc |-> "done", outcome |-> "pending", error |-> "",
     value |-> -1, ready |-> InitializeCompleted(store), wrote |-> FALSE,
     batch |-> <<>>, stored |-> {}, workspace |-> <<>>, failing |-> {},
     query |-> "", topK |-> 0, searched |-> <<>>, similarity |-> <<>>, results |-> <<>>,
     data |-> <<>>]

Resolved(call, value) == [call EXCEPT !.pc = "done", !.outcome = "resolved", !.value = value]

Rejected(call, error) == [call EXCEPT !.pc = "done", !.outcome = "rejected", !.error = error]

\* both stores right after construction, with what is on disk
InitStore ==
    /\ chunks = <<>>
    /\ simpleInitialized = FALSE
    /\ storageFile \in StoredFiles
    /\ indexLoads = 0
    /\ storeCalls = <<>>
    /\ SqliteConstructed
    /\ now = 0
    /\ cacheManager = 0
    /\ caches = (0 :> EmptyCache)
    /\ requestDeduplication = <<>>
    /\ calls = <<>>
    /\ indexPasses = 0
    /\ hovers = <<>>
    /\ uiProvider = UIProviderConstructed

engineRest ==
    <<now, cacheManager, caches, requestDeduplication, calls, indexPasses, hovers, uiProvider>>

sqliteVars == <<db, isInitialized, initializationPromise, tableExists, rows, databaseOpens>>

simpleVars == <<chunks, simpleInitialized, storageFile, indexLoads>>

\* ------------------------------------------------------------------------
\* SimpleVectorStore
\* ------------------------------------------------------------------------

\* initialize() up to the await of createDirectory
SimpleInitialize ==
    /\ Len(storeCalls) < MaxStoreCalls
    /\ LET call == NewStoreCall("simple", "initialize")
       IN storeCalls' = Append(storeCalls,
                               IF simpleInitialized THEN Resolved(call, -1)
                               ELSE [call EXCEPT !.pc = "createDirectory"])
    /\ UNCHANGED <<simpleVars, sqliteVars, engineRest>>

\* initialize() resumes after createDirectory: it throws, or loadChunks
\* starts and awaits readFile
SimpleDirectoryCreated(i, created) ==
    /\ i \in 1..Len(storeCalls)
    /\ storeCalls[i].pc = "createDirectory"
    /\ IF created
       THEN /\ storeCalls' = [storeCalls EXCEPT ![i].pc = "readFile"]
            /\ indexLoads' = indexLoads + 1
       ELSE /\ storeCalls' = [storeCalls EXCEPT ![i] = Rejected(@, "Unable to create directory")]
            /\ UNCHANGED indexLoads
    /\ UNCHANGED <<chunks, simpleInitialized, storageFile, sqliteVars, engineRest>>

\* the file system serves the readFile of loadChunks: the content that the
\* file has at this moment is what the promise will deliver
SimpleReadFileSettles(i) ==
    /\ i \in 1..Len(storeCalls)
    /\ storeCalls[i].pc = "readFile"
    /\ storeCalls' = [storeCalls EXCEPT ![i].pc = "loadChunks", ![i].data = storageFile]
    /\ UNCHANGED <<simpleVars, sqliteVars, engineRest>>

\* loadChunks resumes after readFile: the chunks of the file, or none when
\* the file is missing; initialize() then sets isInitialized
SimpleFileRead(i) ==
    /\ i \in 1..Len(storeCalls)
    /\ storeCalls[i].pc = "loadChunks"
    /\ chunks' = IF storeCalls[i].data = MissingFile THEN <<>> ELSE storeCalls[i].data
    /\ simpleInitialized' = TRUE
    /\ storeCalls' = [storeCalls EXCEPT ![i] = Resolved(@, -1)]
    /\ UNCHANGED <<storageFile, indexLoads, sqliteVars, engineRest>>

\* SimpleVectorStore.storeChunks up to its first await: this.chunks is
\* replaced by a copy of the argument and the loop awaits generateEmbedding.
\* An empty argument has no chunk to await for: saveChunks follows at once.
SimpleStoreChunks(input) ==
    /\ Len(storeCalls) < MaxStoreCalls
    /\ LET call == [NewStoreCall("simple", "storeChunks") EXCEPT !.batch = input]
       IN IF ~simpleInitialized
          THEN /\ storeCalls' = Append(storeCalls, Rejected(call, "VectorStore not initialized"))
               /\ UNCHANGED chunks
          ELSE /\ chunks' = input
               /\ storeCalls' = Append(storeCalls,
                      IF Len(input) = 0
                      THEN [call EXCEPT !.pc = "writeFile", !.data = input]
                      ELSE [call EXCEPT !.pc = "generateEmbedding"])
    /\ UNCHANGED <<storageFile, simpleInitialized, indexLoads, sqliteVars, engineRest>>

\* storeChunks resumes after the last generateEmbedding: saveChunks
\* serializes what this.chunks holds now and awaits writeFile
SimpleSaveChunks(i) ==
    /\ i \in 1..Len(storeCalls)
    /\ storeCalls[i].pc = "generateEmbedding"
    /\ storeCalls' = [storeCalls EXCEPT ![i].pc = "writeFile", ![i].data = chunks]
    /\ UNCHANGED <<simpleVars, sqliteVars, engineRest>>

\* writeFile has replaced the file; saveChunks and storeChunks resolve
SimpleFileWritten(i) ==
    /\ i \in 1..Len(storeCalls)
    /\ storeCalls[i].pc = "writeFile"
    /\ storageFile' = storeCalls[i].data
    /\ storeCalls' = [storeCalls EXCEPT ![i] = [Resolved(@, -1) EXCEPT !.wrote = TRUE]]
    /\ UNCHANGED <<chunks, simpleInitialized, indexLoads, sqliteVars, engineRest>>

\* SimpleVectorStore.searchSimilar
SimpleSearchSimilar(query, k) ==
    /\ Len(storeCalls) < MaxStoreCalls
    /\ LET call == [NewStoreCall("simple", "searchSimilar") EXCEPT !.query = query, !.topK = k]
           results == searchSimilar(chunks, query, k)
       IN storeCalls' = Append(storeCalls,
              IF ~simpleInitialized THEN Rejected(call, "VectorStore not initialized")
              ELSE [Resolved(call, Len(results)) EXCEPT
                       !.searched = chunks,
                       !.similarity = ArrayOf([i \in 1..Len(chunks) |->
                                                  keywordScore(chunks[i], query)]),
                       !.results = results])
    /\ UNCHANGED <<simpleVars, sqliteVars, engineRest>>

\* SimpleVectorStore.clearIndex: no test of isInitialized; this.chunks is
\* emptied and saveChunks awaits writeFile
SimpleClearIndex ==
    /\ Len(storeCalls) < MaxStoreCalls
    /\ chunks' = <<>>
    /\ storeCalls' = Append(storeCalls,
           [NewStoreCall("simple", "clearIndex") EXCEPT !.pc = "writeFile", !.data = <<>>])
    /\ UNCHANGED <<storageFile, simpleInitialized, indexLoads, sqliteVars, engineRest>>

\* SimpleVectorStore.getStats: totalChunks, no test of isInitialized
SimpleGetStats ==
    /\ Len(storeCalls) < MaxStoreCalls
    /\ storeCalls' = Append(storeCalls, Resolved(NewStoreCall("simple", "getStats"), Len(chunks)))
    /\ UNCHANGED <<simpleVars, sqliteVars, engineRest>>

\* ------------------------------------------------------------------------
\* VectorStore (SQLite)
\* ------------------------------------------------------------------------

\* initialize(): an initialized store returns, a store with an
\* initialization promise returns that promise, otherwise
\* performInitialization runs up to the open of the database
SqliteInitialize(directoryCreated) ==
    /\ Len(storeCalls) < MaxStoreCalls
    /\ LET call == NewStoreCall("sqlite", "initialize")
       IN IF isInitialized
          THEN /\ storeCalls' = Append(storeCalls, Resolved(call, -1))
               /\ UNCHANGED <<db, initializationPromise, databaseOpens>>
          ELSE IF initializationPromise # "null"
          THEN /\ storeCalls' = Append(storeCalls, [call EXCEPT !.pc = "waiting"])
               /\ UNCHANGED <<db, initializationPromise, databaseOpens>>
          ELSE IF ~directoryCreated
          THEN /\ storeCalls' = Append(storeCalls,
                                       Rejected(call, "Failed to create database directory"))
               /\ initializationPromise' = "rejected"
               /\ UNCHANGED <<db, databaseOpens>>
          ELSE /\ storeCalls' = Append(storeCalls, [call EXCEPT !.pc = "opening"])
               /\ initializationPromise' = "pending"
               /\ db' = "open"
               /\ databaseOpens' = databaseOpens + 1
    /\ UNCHANGED <<isInitialized, tableExists, rows, simpleVars, engineRest>>

\* the callback of new sqlite3.Database
DatabaseOpened(i, opened) ==
    /\ i \in 1..Len(storeCalls)
    /\ storeCalls[i].pc = "opening"
    /\ IF opened
       THEN /\ storeCalls' = [storeCalls EXCEPT ![i].pc = "creatingTable"]
            /\ UNCHANGED initializationPromise
       ELSE /\ storeCalls' = [storeCalls EXCEPT
                                 ![i] = Rejected(@, "Failed to initialize database")]
            /\ initializationPromise' = "rejected"
    /\ UNCHANGED <<db, isInitialized, tableExists, rows, databaseOpens, simpleVars, engineRest>>

\* the callback of CREATE TABLE: an error rejects the promise; the two
\* CREATE INDEX statements are queued behind it either way
TableCreated(i, created) ==
    /\ i \in 1..Len(storeCalls)
    /\ storeCalls[i].pc = "creatingTable"
    /\ IF created
       THEN /\ storeCalls' = [storeCalls EXCEPT ![i].pc = "creatingIndexes"]
            /\ tableExists' = TRUE
            /\ UNCHANGED initializationPromise
       ELSE /\ storeCalls' = [storeCalls EXCEPT
                                 ![i] = [Rejected(@, "Failed to create table") EXCEPT
                                            !.pc = "creatingIndexes"]]
            /\ initializationPromise' = "rejected"
            /\ UNCHANGED tableExists
    /\ UNCHANGED <<db, isInitialized, rows, databaseOpens, simpleVars, engineRest>>

\* the callback of the last CREATE INDEX: isInitialized is set and resolve()
\* is called, which does nothing to a promise that is already rejected
IndexesCreated(i) ==
    /\ i \in 1..Len(storeCalls)
    /\ storeCalls[i].pc = "creatingIndexes"
    /\ isInitialized' = TRUE
    /\ IF initializationPromise = "pending"
       THEN /\ initializationPromise' = "resolved"
            /\ storeCalls' = [storeCalls EXCEPT ![i] = Resolved(@, -1)]
       ELSE /\ UNCHANGED initializationPromise
            /\ storeCalls' = [storeCalls EXCEPT ![i].pc = "done"]
    /\ UNCHANGED <<db, tableExists, rows, databaseOpens, simpleVars, engineRest>>

\* an initialize() that returned the promise of an earlier call settles with it
WaiterSettles(i) ==
    /\ i \in 1..Len(storeCalls)
    /\ storeCalls[i].pc = "waiting"
    /\ initializationPromise \in {"resolved", "rejected"}
    /\ storeCalls' = [storeCalls EXCEPT
                         ![i] = IF initializationPromise = "resolved" THEN Resolved(@, -1)
                                ELSE Rejected(@, "VectorStore initialization failed")]
    /\ UNCHANGED <<sqliteVars, simpleVars, engineRest>>

\* the tests at the head of storeChunks, searchSimilar and clearIndex
sqliteStateError ==
    IF db = "null" THEN "Database not initialized"
    ELSE IF ~isInitialized THEN "VectorStore not properly initialized"
    ELSE ""

\* the rows after INSERT OR REPLACE of the chunks one after the other: id
\* is the primary key, so a row gives way to a later chunk with its id
upsert(table, input) ==
    {r \in table : \A i \in 1..Len(input) : input[i].id # r.id}
    \cup {input[i] : i \in {k \in 1..Len(input) :
                                \A j \in (k + 1)..Len(input) : input[j].id # input[k].id}}

\* the validation filter of storeChunks: id, filePath, sectionHeading and
\* content are all truthy
validChunks(batch) ==
    SelectSeq(batch, LAMBDA c : c.id # "" /\ c.filePath # "" /\ c.sectionHeading # ""
                                /\ c.content # "")

\* a loop that gives up at the first chunk that fails
insertedUntilFailure(valid, failing) ==
    SubSeq(valid, 1, MinOf((failing \cap (1..Len(valid))) \cup {Len(valid) + 1}) - 1)

\* The loop of storeChunks over the valid chunks.  failing: the positions
\* whose embedding or INSERT fails; such a chunk is counted in errorCount
\* and the loop continues with the next one.
insertedChunks(valid, failing) ==
    LET succeeded == {i \in 1..Len(valid) : i \notin failing}
        nth(k) == CHOOSE i \in succeeded : Cardinality({j \in succeeded : j < i}) = k - 1
    IN ArrayOf([k \in 1..Cardinality(succeeded) |-> valid[nth(k)]])

\* storeChunks of the SQLite store on its current state: the error it
\* rejects with ("" when it resolves) and the chunks it inserts
sqliteStoreOutcome(batch, failing) ==
    LET inserted == insertedChunks(validChunks(batch), failing)
        rejects(message) == [error |-> message, inserted |-> <<>>]
    IN IF sqliteStateError # ""
       THEN rejects("Store chunks operation failed: Error: " \o sqliteStateError)
       ELSE IF Len(batch) = 0 THEN [error |-> "", inserted |-> <<>>]
       ELSE IF Len(validChunks(batch)) = 0
       THEN rejects("Store chunks operation failed: Error: No valid chunks found to store")
       ELSE IF ~tableExists THEN rejects("Failed to prepare statement: no such table")
       ELSE IF Len(inserted) = 0
       THEN rejects("Failed to store chunks: Error: Failed to store any chunks successfully")
       ELSE [error |-> "", inserted |-> inserted]

\* the record of a call that ran storeChunks of the SQLite store
sqliteStoreSettled(call, batch, result) ==
    [(IF result.error # "" THEN Rejected(call, result.error) ELSE Resolved(call, -1))
        EXCEPT !.batch = batch, !.stored = Range(result.inserted),
               !.wrote = Len(result.inserted) > 0]

\* VectorStore.storeChunks
SqliteStoreChunks(input, failing) ==
    /\ Len(storeCalls) < MaxStoreCalls
    /\ failing \subseteq 1..Len(validChunks(input))
    /\ LET result == sqliteStoreOutcome(input, failing)
       IN /\ storeCalls' = Append(storeCalls,
                 [sqliteStoreSettled(NewStoreCall("sqlite", "storeChunks"), input, result)
                     EXCEPT !.failing = failing])
          /\ rows' = upsert(rows, result.inserted)
    /\ UNCHANGED <<db, isInitialized, initializationPromise, tableExists, databaseOpens,
                   simpleVars, engineRest>>

\* the orders in which SELECT without ORDER BY can hand over the rows
RowOrders(table) ==
    {selected \in [1..Cardinality(table) -> table] :
        \A i, j \in 1..Cardinality(table) : selected[i] = selected[j] => i = j}

\* lines 528-577 of searchSimilar: the rows at or above the threshold, the
\* stable sort by similarity descending, the slice to min(topK, maxResults)
rankBySimilarity(selected, similarity, k) ==
    LET results == SelectSeq(ArrayOf([i \in 1..Len(selected) |->
                                         [chunk |-> selected[i], score |-> similarity[i]]]),
                             LAMBDA item : item.score >= similarityThresholdTimes10)
        topResults == Take(sortByScoreDescending(results), Min(k, maxResults))
    IN ArrayOf([i \in 1..Len(topResults) |-> topResults[i].chunk])

\* VectorStore.searchSimilar.  selected: the rows as the SELECT hands them
\* over; similarity: the cosine similarity, times 10, of the embedding of
\* each of these rows to the embedding of the query, which is left open.  A
\* query of white space returns at once; its embedding would be the zero
\* vector, whose cosine similarity to every row is 0.
SqliteSearchSimilar(query, k, selected, similarity) ==
    /\ Len(storeCalls) < MaxStoreCalls
    /\ selected \in RowOrders(rows)
    /\ DOMAIN similarity = DOMAIN selected
    /\ LET call == [NewStoreCall("sqlite", "searchSimilar") EXCEPT !.query = query, !.topK = k]
           results == rankBySimilarity(selected, similarity, k)
       IN storeCalls' = Append(storeCalls,
              IF sqliteStateError # ""
              THEN Rejected(call, "Similarity search failed: Error: " \o sqliteStateError)
              ELSE IF query = ""
              THEN Rejected(call,
                       "Similarity search failed: Error: Query must be a non-empty string")
              ELSE IF Trim(query) = ""
              THEN [Resolved(call, 0) EXCEPT
                       !.searched = selected,
                       !.similarity = ArrayOf([i \in 1..Len(selected) |-> 0])]
              ELSE IF k <= 0
              THEN Rejected(call,
                       "Similarity search failed: Error: topK must be a positive integer")
              ELSE IF ~tableExists
              THEN Rejected(call, "Failed to search chunks: no such table")
              ELSE [Resolved(call, Len(results)) EXCEPT
                       !.searched = selected, !.similarity = similarity,
                       !.results = results])
    /\ UNCHANGED <<sqliteVars, simpleVars, engineRest>>

\* VectorStore.clearIndex
SqliteClearIndex ==
    /\ Len(storeCalls) < MaxStoreCalls
    /\ LET call == NewStoreCall("sqlite", "clearIndex")
       IN IF sqliteStateError # ""
          THEN /\ storeCalls' = Append(storeCalls,
                      Rejected(call, "Clear index operation failed: Error: " \o sqliteStateError))
               /\ UNCHANGED rows
          ELSE IF ~tableExists
          THEN /\ storeCalls' = Append(storeCalls,
                      Rejected(call, "Failed to clear index: no such table"))
               /\ UNCHANGED rows
          ELSE /\ storeCalls' = Append(storeCalls, [Resolved(call, -1) EXCEPT !.wrote = TRUE])
               /\ rows' = {}
    /\ UNCHANGED <<db, isInitialized, initializationPromise, tableExists, databaseOpens,
                   simpleVars, engineRest>>

\* VectorStore.getStats: chunkCount 0 for a store that is not initialized
SqliteGetStats ==
    /\ Len(storeCalls) < MaxStoreCalls
    /\ LET call == NewStoreCall("sqlite", "getStats")
       IN storeCalls' = Append(storeCalls,
              IF db = "null" \/ ~isInitialized THEN Resolved(call, 0)
              ELSE IF ~tableExists THEN Rejected(call, "no such table")
              ELSE Resolved(call, Cardinality(rows)))
    /\ UNCHANGED <<sqliteVars, simpleVars, engineRest>>

NextStore ==
    \/ SimpleInitialize
    \/ \E i \in 1..MaxStoreCalls : \E created \in BOOLEAN : SimpleDirectoryCreated(i, created)
    \/ \E i \in 1..MaxStoreCalls : SimpleReadFileSettles(i)
    \/ \E i \in 1..MaxStoreCalls : SimpleFileRead(i)
    \/ \E input \in StoreInputs : SimpleStoreChunks(input)
    \/ \E i \in 1..MaxStoreCalls : SimpleSaveChunks(i)
    \/ \E i \in 1..MaxStoreCalls : SimpleFileWritten(i)
    \/ SimpleSearchSimilar("calculateSum", topK)
    \/ SimpleClearIndex
    \/ SimpleGetStats
    \/ \E directoryCreated \in BOOLEAN : SqliteInitialize(directoryCreated)
    \/ \E i \in 1..MaxStoreCalls : \E opened \in BOOLEAN : DatabaseOpened(i, opened)
    \/ \E i \in 1..MaxStoreCalls : \E created \in BOOLEAN : TableCreated(i, created)
    \/ \E i \in 1..MaxStoreCalls : IndexesCreated(i)
    \/ \E i \in 1..MaxStoreCalls : WaiterSettles(i)
    \/ \E input \in StoreInputs : SqliteStoreChunks(input, {})
    \/ \E selected \in RowOrders(rows) :
           \E similarity \in [1..Cardinality(rows) -> {2, 7}] :
               SqliteSearchSimilar("calculateSum", topK, selected, similarity)
    \/ SqliteClearIndex
    \/ SqliteGetStats

SpecStore == InitStore /\ [][NextStore]_vars

\* ------------------------------------------------------------------------
\* DocumentationIndexer (src/indexer/DocumentationIndexer.ts): from the
\* markdown files of the workspace to documentation chunks
\* ------------------------------------------------------------------------

\* String.prototype.split('\n'): every newline separates, empty lines stay
SplitLines(s) ==
    LET newlines == {i \in 1..Len(s) : CharAt(s, i) = "\n"}
        starts == {1} \cup {i + 1 : i \in newlines}
        nth(k) == CHOOSE p \in starts : Cardinality({q \in starts : q < p}) = k - 1
        endOf(p) == IF \E i \in newlines : i >= p
                    THEN MinOf({i \in newlines : i >= p}) - 1 ELSE Len(s)
    IN ArrayOf([k \in 1..Cardinality(starts) |->
                   IF endOf(nth(k)) < nth(k) THEN "" ELSE SubSeq(s, nth(k), endOf(nth(k)))])

\* String.prototype.endsWith
EndsWith(s, suffix) ==
    Len(suffix) <= Len(s) /\ SubSeq(s, Len(s) - Len(suffix) + 1, Len(s)) = suffix

\* Number.prototype.toString of a counter, as the template literal prints it
RECURSIVE decimal(_)
decimal(n) == IF n < 10 THEN CharAt(Digits, n + 1)
              ELSE decimal(n \div 10) \o CharAt(Digits, (n % 10) + 1)

\* the id before the counter: lower case, every character outside [a-z0-9]
\* replaced by a dash, runs of dashes collapsed, dashes at the ends removed
cleanChunkId(filePath, heading) ==
    LET lower == toLowerCase(filePath \o "#" \o heading)
        baseId == ConcatRange([i \in 1..Len(lower) |->
                      IF CharAt(lower, i) \in CharSet(LowerAlpha) \cup CharSet(Digits)
                      THEN CharAt(lower, i) ELSE "-"], 1, Len(lower))
        cleanId == Join(SelectSeq(Split(baseId, {"-"}), LAMBDA piece : Len(piece) > 0), "-")
    IN IF cleanId = "" THEN "unnamed-section" ELSE cleanId

\* the while loop of generateUniqueChunkId: the first of cleanId, cleanId-1,
\* cleanId-2, ... that is not in usedIds
RECURSIVE firstUnusedId(_, _, _)
firstUnusedId(cleanId, counter, usedIds) ==
    LET uniqueId == IF counter = 0 THEN cleanId ELSE cleanId \o "-" \o decimal(counter)
    IN IF uniqueId \in usedIds THEN firstUnusedId(cleanId, counter + 1, usedIds)
       ELSE uniqueId

generateUniqueChunkId(filePath, heading, usedIds) ==
    firstUnusedId(cleanChunkId(filePath, heading), 0, usedIds)

\* createDocumentationChunk; filePath is the path relative to the
\* workspace root, which is how the model names a file
createDocumentationChunk(heading, content, filePath, usedIds) ==
    DocumentationChunk(generateUniqueChunkId(filePath, heading, usedIds), filePath, heading,
        content, Len(SelectSeq(Split(content, SpaceChars), LAMBDA word : Len(word) > 0)))

\* line.match(/^(#{1,6})\s+(.+)$/): one to six '#', then white space, then
\* at least one more character
headerMatch(line) ==
    LET hashes == IF \E i \in 1..Len(line) : CharAt(line, i) # "#"
                  THEN MinOf({i \in 1..Len(line) : CharAt(line, i) # "#"}) - 1
                  ELSE Len(line)
    IN /\ hashes \in 1..6
       /\ Len(line) >= hashes + 2
       /\ CharAt(line, hashes + 1) \in SpaceChars

\* headerMatch[2].trim()
headingOf(line) ==
    LET hashes == MinOf({i \in 1..Len(line) : CharAt(line, i) # "#"}) - 1
    IN Trim(SubSeq(line, hashes + 1, Len(line)))

\* no chunk is open
NoChunk == [open |-> FALSE, heading |-> "", content |-> <<>>]

\* the loop of splitByHeaders from line i on; sections are the chunks
\* pushed so far and currentChunk the open one
RECURSIVE splitLoop(_, _, _, _, _, _)
splitLoop(lines, i, filePath, sections, usedIds, currentChunk) ==
    LET chunkContent == Trim(Join(currentChunk.content, "\n"))
        pushed == createDocumentationChunk(currentChunk.heading, chunkContent, filePath, usedIds)
    IN IF i > Len(lines)
       THEN IF currentChunk.open THEN Append(sections, pushed) ELSE sections
       ELSE IF headerMatch(lines[i])
       THEN LET saves == currentChunk.open
                         /\ (Len(chunkContent) > 0 \/ Len(currentChunk.content) = 0)
                kept == IF saves THEN Append(sections, pushed) ELSE sections
                ids == IF saves THEN usedIds \cup {pushed.id} ELSE usedIds
            IN IF Len(headingOf(lines[i])) = 0
               THEN splitLoop(lines, i + 1, filePath, kept, ids, currentChunk)
               ELSE splitLoop(lines, i + 1, filePath, kept, ids,
                        [open |-> TRUE, heading |-> headingOf(lines[i]), content |-> <<>>])
       ELSE IF currentChunk.open
       THEN splitLoop(lines, i + 1, filePath, sections, usedIds,
                [currentChunk EXCEPT !.content = Append(@, lines[i])])
       ELSE IF Len(Trim(lines[i])) > 0
       THEN splitLoop(lines, i + 1, filePath, sections, usedIds,
                [open |-> TRUE, heading |-> "Introduction", content |-> <<lines[i]>>])
       ELSE splitLoop(lines, i + 1, filePath, sections, usedIds, currentChunk)

\* a chunker that closes a section at every line instead of at every
\* heading: each non-blank line becomes a section of its own
splitByLines(content, filePath) ==
    LET lines == SelectSeq(SplitLines(content), LAMBDA line : Len(Trim(line)) > 0)
    IN ArrayOf([k \in 1..Len(lines) |->
           createDocumentationChunk("Introduction", Trim(lines[k]), filePath, {})])

\* splitByHeaders: usedIds starts empty for every file
splitByHeaders(content, filePath) ==
    IF content = "" THEN <<>>
    ELSE SelectSeq(splitLoop(SplitLines(content), 1, filePath, <<>>, {}, NoChunk),
                   LAMBDA chunk : Len(Trim(chunk.content)) > 0
                                  \/ chunk.sectionHeading # "Introduction")

\* A path that scanMarkdownFiles lists.  kind: "file"; "directory" for a
\* directory whose name ends in .md; "unreadable" for a file on which stat
\* or readFile throws.  The files of the model have no front matter, so
\* the content that matter() hands on is the content of the file.
MarkdownFile(path, kind, content) == [path |-> path, kind |-> kind, content |-> content]

\* processFile: it throws, or it returns the sections of the file
processFile(file) ==
    IF ~EndsWith(toLowerCase(file.path), ".md") \/ file.kind # "file"
    THEN [threw |-> TRUE, sections |-> <<>>]
    ELSE [threw |-> FALSE, sections |-> splitByHeaders(file.content, file.path)]

\* scanMarkdownFiles: the paths found, sorted
scanMarkdownFiles(workspace) == sortStrings([i \in 1..Len(workspace) |-> workspace[i].path])

\* the loop of indexWorkspace over the files from position i on: a file
\* on which processFile throws is skipped
RECURSIVE collectChunks(_, _, _)
collectChunks(workspace, markdownFiles, i) ==
    IF i > Len(markdownFiles) THEN <<>>
    ELSE LET file == CHOOSE f \in Range(workspace) : f.path = markdownFiles[i]
         IN processFile(file).sections \o collectChunks(workspace, markdownFiles, i + 1)

\* allChunks of indexWorkspace.  generateEmbeddings adds an embedding to
\* each chunk or leaves the chunk as it is, and storeChunks generates the
\* embedding a chunk lacks, so the chunks reach storeChunks unchanged in
\* the fields of the model.
allChunks(workspace) == collectChunks(workspace, scanMarkdownFiles(workspace), 1)

MaxPasses == 2

ReadmeFile ==
    MarkdownFile("README.md", "file",
        "# calculateSum\nThe calculateSum function adds two numbers and returns the total.")

\* README.md with a second section
ReadmeTwoSections ==
    MarkdownFile("README.md", "file",
        ReadmeFile.content \o "\n\n## parse\nThe parse function reads the input text.")

GuideDashFile == MarkdownFile("docs/a-b.md", "file", "# Setup\nRun the installer.")

GuideDirFile == MarkdownFile("docs/a/b.md", "file", "# Setup\nCopy the files.")

\* a file with a heading and nothing under it
TitleOnlyFile == MarkdownFile("docs/todo.md", "file", "# Todo")

\* a file with the same heading twice
RepeatedHeadingFile == MarkdownFile("docs/faq.md", "file", "# Setup\nFirst.\n# Setup\nSecond.")

UnreadableFile == MarkdownFile("docs/secret.md", "unreadable", "")

DirectoryFile == MarkdownFile("docs/old.md", "directory", "")

\* two headings with nothing between them
AdjacentHeadingsFile == MarkdownFile("docs/adjacent.md", "file", "# Install\n## Usage\nRun it.")

\* two headings with a blank line between them
BlankGapFile == MarkdownFile("docs/gap.md", "file", "# Install\n\n## Usage\nRun it.")

\* a heading line whose text is white space, after a section with a body
EmptyHeadingFile ==
    MarkdownFile("docs/empty.md", "file", "# Install\nStep one.\n#  \nStep two.")

\* text before the first heading
IntroFile ==
    MarkdownFile("docs/intro.md", "file", "Welcome.\n# Install\nStep one.\n## Usage\nRun it.")

\* what the indexer can find in the workspace, in directory order
MarkdownWorkspaces ==
    {<<>>, <<ReadmeFile>>, <<ReadmeTwoSections>>, <<UnreadableFile, ReadmeFile>>,
     <<DirectoryFile>>, <<TitleOnlyFile, ReadmeFile>>, <<TitleOnlyFile>>,
     <<GuideDashFile, GuideDirFile>>, <<RepeatedHeadingFile>>,
     <<AdjacentHeadingsFile>>, <<BlankGapFile>>, <<EmptyHeadingFile>>, <<IntroFile>>}

allChunksOf == MapOf([w \in MarkdownWorkspaces |-> allChunks(w)])

\* the section of TitleOnlyFile: its content is empty
TodoChunk == DocumentationChunk("docs-todo-md-todo", "docs/todo.md", "Todo", "", 0)

\* the arrays handed to storeChunks by a caller other than the indexer
Batches == {<<TodoChunk>>, <<SumChunk, TodoChunk, ParseChunk>>}

\* indexWorkspace with the SQLite store: the files are scanned and
\* processed, the chunks are handed to storeChunks, and a rejection of
\* storeChunks is thrown on to the caller
IndexWorkspaceSqlite(workspace, failing) ==
    /\ Len(storeCalls) < MaxPasses
    /\ failing \subseteq 1..Len(validChunks(allChunksOf[workspace]))
    /\ LET result == sqliteStoreOutcome(allChunksOf[workspace], failing)
       IN /\ storeCalls' = Append(storeCalls,
                 [sqliteStoreSettled(NewStoreCall("sqlite", "indexWorkspace"),
                                     allChunksOf[workspace], result)
                     EXCEPT !.workspace = workspace, !.failing = failing])
          /\ rows' = upsert(rows, result.inserted)
    /\ UNCHANGED <<db, isInitialized, initializationPromise, tableExists, databaseOpens,
                   simpleVars, engineRest>>

\* indexWorkspace with the SimpleVectorStore, whose storeChunks replaces
\* the array and writes it to the file
IndexWorkspaceSimple(workspace) ==
    /\ Len(storeCalls) < MaxPasses
    /\ LET call == NewStoreCall("simple", "indexWorkspace")
       IN IF ~simpleInitialized
          THEN /\ storeCalls' = Append(storeCalls,
                      [Rejected(call, "VectorStore not initialized")
                          EXCEPT !.workspace = workspace, !.batch = allChunksOf[workspace]])
               /\ UNCHANGED <<chunks, storageFile>>
          ELSE /\ chunks' = allChunksOf[workspace]
               /\ storageFile' = allChunksOf[workspace]
               /\ storeCalls' = Append(storeCalls,
                      [Resolved(call, -1)
                          EXCEPT !.workspace = workspace, !.batch = allChunksOf[workspace],
                                 !.stored = Range(allChunksOf[workspace]), !.wrote = TRUE])
    /\ UNCHANGED <<simpleInitialized, indexLoads, sqliteVars, engineRest>>

\* both stores initialized and empty, as activate() leaves the store it uses
InitIndexer ==
    /\ chunks = <<>>
    /\ simpleInitialized = TRUE
    /\ storageFile = <<>>
    /\ indexLoads = 1
    /\ storeCalls = <<>>
    /\ db = "open"
    /\ isInitialized = TRUE
    /\ initializationPromise = "resolved"
    /\ tableExists = TRUE
    /\ rows = {}
    /\ databaseOpens = 1
    /\ now = 0
    /\ cacheManager = 0
    /\ caches = (0 :> EmptyCache)
    /\ requestDeduplication = <<>>
    /\ calls = <<>>
    /\ indexPasses = 0
    /\ hovers = <<>>
    /\ uiProvider = UIProviderConstructed

\* indexing passes and storeChunks calls on the two stores
NextIndexer ==
    \/ \E w \in MarkdownWorkspaces : \E failing \in SUBSET (1..2) : IndexWorkspaceSqlite(w, failing)
    \/ \E w \in MarkdownWorkspaces : IndexWorkspaceSimple(w)
    \/ \E batch \in Batches : \E failing \in SUBSET (1..2) : SqliteStoreChunks(batch, failing)

SpecIndexer == InitIndexer /\ [][NextIndexer]_vars

\* ------------------------------------------------------------------------
\* searchSimilar of the two stores over an index that is in place
\* ------------------------------------------------------------------------

\* the queries: a symbol, words of several chunks, white space, nothing
Queries == {"calculateSum", "function parse", "  ", ""}

\* the queries put to the SQLite store, whose similarities are left open:
\* one with words, white space, nothing
EmbeddedQueries == {"calculateSum", "  ", ""}

\* similarities in tenths: below, at and above the threshold
Similarities == {2, 3, 7}

\* both stores initialized and holding the chunks of one indexing pass
InitSearch ==
    /\ chunks \in Workspaces
    /\ simpleInitialized = TRUE
    /\ storageFile = chunks
    /\ indexLoads = 1
    /\ storeCalls = <<>>
    /\ db = "open"
    /\ isInitialized = TRUE
    /\ initializationPromise = "resolved"
    /\ tableExists = TRUE
    /\ rows = Range(chunks)
    /\ databaseOpens = 1
    /\ now = 0
    /\ cacheManager = 0
    /\ caches = (0 :> EmptyCache)
    /\ requestDeduplication = <<>>
    /\ calls = <<>>
    /\ indexPasses = 0
    /\ hovers = <<>>
    /\ uiProvider = UIProviderConstructed

MaxSearches == 2

SimpleSearches ==
    /\ Len(storeCalls) < MaxSearches
    /\ \E query \in Queries : \E k \in {1, topK} : SimpleSearchSimilar(query, k)

SqliteSearches ==
    /\ Len(storeCalls) < MaxSearches
    /\ \E query \in EmbeddedQueries : \E k \in {1, topK} :
           \E selected \in RowOrders(rows) :
               \E similarity \in [1..Cardinality(rows) -> Similarities] :
                   SqliteSearchSimilar(query, k, selected, similarity)

NextSearch == SimpleSearches \/ SqliteSearches

SpecSearch == InitSearch /\ [][NextSearch]_vars

\* ------------------------------------------------------------------------
\* generateEmbedding of the two stores
\* ------------------------------------------------------------------------

\* new Array(128) of VectorStore.generateEmbedding
embeddingDimensions == 128

\* new Array(100) of SimpleVectorStore.generateEmbedding
simpleEmbeddingLength == 100

\* VectorStore.generateEmbedding: what it throws, or the length of the
\* vector and how the vector was filled.  zeroNorm: the features of the
\* words add up to the zero vector, which the code replaces by random
\* numbers.
sqliteGenerateEmbedding(text, zeroNorm) ==
    IF text = ""
    THEN [error |-> "Failed to generate embedding: Error: Text input is required and must be a string",
          length |-> 0, filled |-> "nothing"]
    ELSE IF Len(Trim(text)) = 0
    THEN [error |-> "", length |-> embeddingDimensions, filled |-> "zeros"]
    ELSE [error |-> "", length |-> embeddingDimensions,
          filled |-> IF zeroNorm THEN "random" ELSE "normalized"]

\* SimpleVectorStore.generateEmbedding: split(/\s+/) yields at least one
\* word, the empty one for an empty text, and every word adds 1 to one
\* position, so the vector is never zero
simpleGenerateEmbedding(text) ==
    [error |-> "", length |-> simpleEmbeddingLength, filled |-> "normalized"]

\* a generateEmbedding call on a store and how it settled
EmbeddingSettles(store, text, embedding) ==
    /\ Len(storeCalls) < MaxStoreCalls
    /\ LET call == [NewStoreCall(store, "generateEmbedding") EXCEPT !.query = text]
       IN storeCalls' = Append(storeCalls,
              IF embedding.error # "" THEN Rejected(call, embedding.error)
              ELSE Resolved(call, embedding.length))
    /\ UNCHANGED <<sqliteVars, simpleVars, engineRest>>

SqliteGenerateEmbedding(text, zeroNorm) ==
    EmbeddingSettles("sqlite", text, sqliteGenerateEmbedding(text, zeroNorm))

SimpleGenerateEmbedding(text) ==
    EmbeddingSettles("simple", text, simpleGenerateEmbedding(text))

\* the texts: nothing, white space, a word, a sentence
Texts == {"", " ", " \n ", "parse", "calculateSum adds two numbers"}

NextEmbed ==
    \/ \E text \in Texts : \E zeroNorm \in BOOLEAN : SqliteGenerateEmbedding(text, zeroNorm)
    \/ \E text \in Texts : SimpleGenerateEmbedding(text)

SpecEmbed == InitSearch /\ [][NextEmbed]_vars

\* ------------------------------------------------------------------------
\* ExplanationCacheManager, its public methods called one after another
\* ------------------------------------------------------------------------

MaxCacheCalls == 3

\* what the engine hands to store(): the explanation and the citations of a
\* rejection, of an answer from one file and of an answer from two files
CachedResults ==
    {Rejection, groundedResult(SumContext, <<SumChunk>>),
     groundedResult(SumContext, <<StubChunk, SumChunk>>),
     groundedResult(ParseContext, <<ParseChunk>>)}

CacheContexts == {SumContext, ParseContext, SumContextElsewhere}

\* a call of a method of the cache manager: the Map before and after it,
\* the clock at the call and what the call returned
CacheCall(op, context, filePath, before, after, found) ==
    [kind |-> op, context |-> context, filePath |-> filePath, at |-> now,
     before |-> before, after |-> after, found |-> found]

\* a method call that leaves the Map as given
CacheCallSettles(op, context, filePath, after, found) ==
    /\ Len(calls) < MaxCacheCalls
    /\ calls' = Append(calls, CacheCall(op, context, filePath, caches[cacheManager], after, found))
    /\ caches' = [caches EXCEPT ![cacheManager] = after]
    /\ UNCHANGED <<uiProvider, hovers, storeVars, chunks, now, cacheManager, requestDeduplication, indexPasses>>

\* store(context, explanation, citations)
CacheManagerStore(context, result) ==
    CacheCallSettles("store", context, "",
        cacheStore(caches[cacheManager], context, result.explanation, result.citations, now),
        FALSE)

\* retrieve(context)
CacheManagerRetrieve(context) ==
    CacheCallSettles("retrieve", context, "",
        cacheAfterRetrieve(caches[cacheManager], context, now),
        cacheHit(caches[cacheManager], context, now))

\* has(context): the same lookup, answered with a boolean
CacheManagerHas(context) ==
    CacheCallSettles("has", context, "",
        cacheAfterRetrieve(caches[cacheManager], context, now),
        cacheHit(caches[cacheManager], context, now))

\* invalidateFile(filePath)
CacheManagerInvalidateFile(filePath) ==
    CacheCallSettles("invalidateFile", NullContext, filePath,
        invalidateFile(caches[cacheManager], filePath), FALSE)

\* cleanupExpired()
CacheManagerCleanupExpired ==
    CacheCallSettles("cleanupExpired", NullContext, "",
        cleanupExpired(caches[cacheManager], now), FALSE)

\* clear()
CacheManagerClear == CacheCallSettles("clear", NullContext, "", EmptyCache, FALSE)

\* the paths handed to invalidateFile: the files the chunks come from and a
\* file that no chunk comes from
InvalidatedPaths == {"README.md", "docs/api.md", "docs/none.md"}

NextCache ==
    \/ \E context \in CacheContexts : \E result \in CachedResults :
           CacheManagerStore(context, result)
    \/ \E context \in CacheContexts : CacheManagerRetrieve(context)
    \/ \E context \in CacheContexts : CacheManagerHas(context)
    \/ \E filePath \in InvalidatedPaths : CacheManagerInvalidateFile(filePath)
    \/ CacheManagerCleanupExpired
    \/ CacheManagerClear
    \/ Tick

SpecCache == InitIndexer /\ [][NextCache]_vars

\* ------------------------------------------------------------------------
\* explainCode called again and again, with clearCache() in between, on an
\* index that stays as it is and with a cache manager that does not throw
\* ------------------------------------------------------------------------

NextRepeat ==
    \/ \E context \in ValidContexts : ExplainCode(context, FALSE, FALSE)
    \/ \E i \in 1..MaxCalls : AfterRetrieval(i, FALSE)
    \/ \E i \in 1..MaxCalls : AfterGeneration(i, FALSE)
    \/ \E i \in 1..MaxCalls : OwnerReturns(i)
    \/ \E i \in 1..MaxCalls : JoinerReturns(i)
    \/ ClearCache

SpecRepeat == Init /\ [][NextRepeat]_vars

\* ------------------------------------------------------------------------
\* HoverProvider (src/unnamed/part_007)
\* ------------------------------------------------------------------------

MaxHovers == 2

\* A provideHover request.  cancelled: token.isCancellationRequested; call:
\* the explainCode call it awaits, 0 if it made none; shown: it returned a
\* Hover and not undefined.
HoverRequest(context, cancelled, call, pc) ==
    [context |-> context, cancelled |-> cancelled, call |-> call, pc |-> pc, shown |-> FALSE]

\* provideHover up to its await of explainCode: a request that is already
\* cancelled, or whose word is shorter than two characters, returns
\* undefined without a call of the engine
ProvideHover(context, cancelled) ==
    /\ Len(hovers) < MaxHovers
    /\ IF cancelled \/ Len(Trim(context.selectedText)) = 0 \/ Len(context.selectedText) < 2
       THEN /\ hovers' = Append(hovers, HoverRequest(context, cancelled, 0, "done"))
            /\ UNCHANGED <<engineVars, storeVars>>
       ELSE /\ ExplainCodeFrom(context, FALSE, FALSE, retrievedFor[chunks][context])
            /\ hovers' = Append(hovers, HoverRequest(context, FALSE, Len(calls) + 1, "awaiting"))
    /\ UNCHANGED uiProvider

\* the editor cancels the token of a request that awaits the engine
CancelHover(h) ==
    /\ h \in 1..Len(hovers)
    /\ hovers[h].pc = "awaiting"
    /\ ~hovers[h].cancelled
    /\ hovers' = [hovers EXCEPT ![h].cancelled = TRUE]
    /\ UNCHANGED <<engineVars, storeVars, uiProvider>>

\* provideHover after explainCode returned: undefined for a cancelled
\* request and for a result without documentation, a Hover otherwise
HoverResumes(h) ==
    /\ h \in 1..Len(hovers)
    /\ hovers[h].pc = "awaiting"
    /\ calls[hovers[h].call].pc = "done"
    /\ LET explanationResult == calls[hovers[h].call].outcome
       IN hovers' = [hovers EXCEPT
              ![h].pc = "done",
              ![h].shown = /\ ~hovers[h].cancelled
                           /\ explanationResult.hasRelevantDocs
                           /\ explanationResult.explanation # NotDocumented]
    /\ UNCHANGED <<engineVars, storeVars, uiProvider>>

NextHover ==
    \/ \E context \in ValidContexts : \E cancelled \in BOOLEAN : ProvideHover(context, cancelled)
    \/ \E h \in 1..MaxHovers : CancelHover(h)
    \/ \E h \in 1..MaxHovers : HoverResumes(h)
    \/ \E i \in 1..MaxCalls : AfterRetrieval(i, FALSE)
    \/ \E i \in 1..MaxCalls : AfterGeneration(i, FALSE)
    \/ \E i \in 1..MaxCalls : OwnerReturns(i)
    \/ \E i \in 1..MaxCalls : JoinerReturns(i)

SpecHover == Init /\ [][NextHover]_vars

\* ------------------------------------------------------------------------
\* UIProvider: dynamic updates on selection changes
\* (src/test/integration.simple.test.ts)
\* ------------------------------------------------------------------------

\* debounceDelay, in milliseconds
debounceDelay == 500

\* the step of the clock, in milliseconds
ClockStep == 250

MaxUiTime == 1000

MaxUiCalls == 5

\* event.selections[0]: undefined, or a selection from its start to its end
NoSelection == [defined |-> FALSE, startLine |-> 0, startCharacter |-> 0,
                endLine |-> 0, endCharacter |-> 0]

Selection(startLine, startCharacter, endLine, endCharacter) ==
    [defined |-> TRUE, startLine |-> startLine, startCharacter |-> startCharacter,
     endLine |-> endLine, endCharacter |-> endCharacter]

\* vscode.Selection.isEmpty and isSingleLine
isEmpty(selection) ==
    selection.startLine = selection.endLine
    /\ selection.startCharacter = selection.endCharacter

isSingleLine(selection) == selection.startLine = selection.endLine

\* no selection, a caret, a range within a line, and a range over two lines
\* that starts and ends in the same column
Selections ==
    {NoSelection, Selection(0, 4, 0, 4), Selection(0, 4, 0, 16), Selection(0, 4, 1, 4)}

\* the test of handleSelectionChange for a selection that is not processed
notMeaningful(selection) ==
    \/ ~selection.defined
    \/ isEmpty(selection)
    \/ (isSingleLine(selection) /\ selection.startCharacter = selection.endCharacter)

\* clearTimeout(handle): nothing happens for a handle that has run
clearTimeout(timers, handle) ==
    MapOf([h \in DOMAIN timers \ {handle} |-> timers[h]])

UiLogged(ui, call, selection) ==
    Append(ui.log, [call |-> call, selection |-> selection, at |-> ui.time])

UiUnchanged ==
    UNCHANGED <<engineVars, storeVars, hovers>>

\* registerDynamicUpdates.  The extension calls it when it registers its
\* providers: on activation and, after unregisterDynamicUpdates, when the UI
\* configuration changed.
RegisterDynamicUpdates ==
    /\ Len(uiProvider.log) < MaxUiCalls
    /\ ~uiProvider.selectionChangeListener
    /\ uiProvider' = [uiProvider EXCEPT
                         !.selectionChangeListener = TRUE,
                         !.log = UiLogged(uiProvider, "registerDynamicUpdates", NoSelection)]
    /\ UiUnchanged

\* unregisterDynamicUpdates: the listener is disposed and the timer cleared
UnregisterDynamicUpdates ==
    /\ Len(uiProvider.log) < MaxUiCalls
    /\ uiProvider' = [uiProvider EXCEPT
                         !.selectionChangeListener = FALSE,
                         !.timers = IF uiProvider.debounceTimer # 0
                                    THEN clearTimeout(@, uiProvider.debounceTimer) ELSE @,
                         !.debounceTimer = 0,
                         !.log = UiLogged(uiProvider, "unregisterDynamicUpdates", NoSelection)]
    /\ UiUnchanged

\* a handler that sets its timeout without clearing the one that is set
handleSelectionChangeKeepingTimer(selection) ==
    /\ Len(uiProvider.log) < MaxUiCalls
    /\ uiProvider.selectionChangeListener
    /\ LET handle == uiProvider.handles + 1
           logged == UiLogged(uiProvider, "handleSelectionChange", selection)
       IN uiProvider' =
              IF notMeaningful(selection)
              THEN [uiProvider EXCEPT !.log = logged]
              ELSE [uiProvider EXCEPT
                       !.timers = (handle :> [selection |-> selection,
                                              due |-> uiProvider.time + debounceDelay]) @@ @,
                       !.debounceTimer = handle,
                       !.handles = handle,
                       !.log = logged]
    /\ UiUnchanged

\* handleSelectionChange, which the editor calls through the listener, while
\* it is not disposed, for every change of the selection
handleSelectionChange(selection) ==
    /\ Len(uiProvider.log) < MaxUiCalls
    /\ uiProvider.selectionChangeListener
    /\ LET handle == uiProvider.handles + 1
           cleared == IF uiProvider.debounceTimer # 0
                      THEN clearTimeout(uiProvider.timers, uiProvider.debounceTimer)
                      ELSE uiProvider.timers
           logged == UiLogged(uiProvider, "handleSelectionChange", selection)
       IN uiProvider' =
              IF notMeaningful(selection)
              THEN [uiProvider EXCEPT !.timers = cleared, !.log = logged]
              ELSE [uiProvider EXCEPT
                       !.timers = (handle :> [selection |-> selection,
                                              due |-> uiProvider.time + debounceDelay])
                                  @@ cleared,
                       !.debounceTimer = handle,
                       !.handles = handle,
                       !.log = logged]
    /\ UiUnchanged

\* a timeout runs, at its time or later: updateExplanationForSelection is
\* called with the selection of the event
TimeoutRuns(handle) ==
    /\ handle \in DOMAIN uiProvider.timers
    /\ uiProvider.timers[handle].due <= uiProvider.time
    /\ uiProvider' = [uiProvider EXCEPT
                         !.timers = clearTimeout(@, handle),
                         !.log = UiLogged(uiProvider, "updateExplanationForSelection",
                                          uiProvider.timers[handle].selection)]
    /\ UiUnchanged

\* the clock of the editor advances
UiTick ==
    /\ uiProvider.time < MaxUiTime
    /\ uiProvider' = [uiProvider EXCEPT !.time = @ + ClockStep]
    /\ UiUnchanged

NextUi ==
    \/ RegisterDynamicUpdates
    \/ UnregisterDynamicUpdates
    \/ \E selection \in Selections : handleSelectionChange(selection)
    \/ \E handle \in 1..MaxUiCalls : TimeoutRuns(handle)
    \/ UiTick

\* the extension with an empty index: the UIProvider does not call the engine
InitUi == Init /\ chunks = <<>>

SpecUi == InitUi /\ [][NextUi]_vars

\* ------------------------------------------------------------------------
\* Properties
\* ------------------------------------------------------------------------

\* the explainCode calls that have returned
Returned == {i \in 1..Len(calls) : calls[i].kind = "explain" /\ calls[i].pc = "done"}

\* the calls whose processExplanationRequest is running
Computing == {i \in 1..Len(calls) : calls[i].pc \in {"retrieving", "generating"}}

\* C1: every result of explainCode whose explanation is "Not documented."
\* has hasRelevantDocs false, no citations and confidence 0 (the four
\* conditions of the claim stand or fall together).
C1_NotDocumentedAgrees ==
    \A i \in Returned :
        LET r == calls[i].outcome
        IN r.explanation = NotDocumented =>
              /\ r.hasRelevantDocs = FALSE
              /\ r.citations = <<>>
              /\ r.confidence = 0

\* an object with a string explanation, an array citations, a numeric
\* confidence in [0, 1] and a boolean hasRelevantDocs
WellFormed(r) ==
    /\ DOMAIN r = {"explanation", "citations", "confidence", "hasRelevantDocs"}
    /\ r.explanation \in STRING
    /\ DOMAIN r.citations = 1..Len(r.citations)
    /\ r.confidence \in 0..9000
    /\ r.hasRelevantDocs \in BOOLEAN

\* C2: whatever value explainCode was called with, and whether or not the
\* cache manager or the vector store threw, a call that has returned has
\* returned a well-formed result, and a call that has not returned yet sits
\* at an await that a later step resumes.
C2_AlwaysWellFormed ==
    \A i \in 1..Len(calls) :
        calls[i].kind = "explain" =>
            IF calls[i].pc = "done" THEN WellFormed(calls[i].outcome)
            ELSE calls[i].pc \in {"retrieving", "generating", "settled", "joined"}

\* C2 witness: a null context and a request whose searchSimilar threw have
\* both been answered.
C2_Witness ==
    \E i, j \in Returned :
        /\ calls[i].context = NullContext
        /\ calls[j].failed

\* C3: for each dedup hash at most one computation is in progress.
C3_OneComputationPerHash ==
    \A i, j \in Computing : calls[i].hash = calls[j].hash => i = j

\* C4: a call answered from the cache entry that an earlier call with the
\* identical context stored returns the earlier result in every field and
\* calls searchSimilar not at all.
C4_WarmCacheSameResult ==
    \A i, j \in Returned :
        (/\ i < j
         /\ calls[i].context = calls[j].context
         /\ calls[i].searches = 1
         /\ calls[j].hit)
        => /\ calls[j].outcome = calls[i].outcome
           /\ calls[j].searches = 0

\* C5: no call is answered from a cache entry that cites a file indexed
\* again after the entry was stored.
C5_NoAnswerFromReindexed ==
    \A i \in 1..Len(calls) : ~calls[i].hitReindexed

\* C6: a request whose searchSimilar threw is not answered with the
\* "Not documented." text.
C6_ErrorTextDiffers ==
    \A i \in Returned : calls[i].failed => calls[i].outcome.explanation # NotDocumented

\* the earlier call i is unsettled: its computation runs, or it awaits one
\* that runs
Unsettled(i) ==
    \/ i \in Computing
    \/ calls[i].pc = "joined" /\ calls[i].leader \in Computing

\* C7: a call made while an earlier call with the identical context is
\* unsettled awaits that computation, makes no searchSimilar call of its
\* own, and returns what the earlier call returns.
C7_JoinsEarlierCall ==
    \A j \in 1..Len(calls) : \A i \in 1..(j - 1) :
        (/\ calls[i].kind = "explain"
         /\ calls[j].kind = "explain"
         /\ calls[i].context = calls[j].context)
        => /\ Unsettled(i) => calls[j].leader # 0 /\ calls[j].searches = 0
           /\ (calls[j].leader # 0 /\ calls[j].leader \in {i, calls[i].leader}) =>
                 /\ calls[j].searches = 0
                 /\ j \in Returned => calls[j].outcome = calls[calls[j].leader].result
                 /\ (i \in Returned /\ j \in Returned) => calls[j].outcome = calls[i].outcome

\* C7 witness: a call that joined a computation with documentation has
\* returned, and so has the call it joined.
C7_Witness ==
    \E j \in Returned :
        /\ calls[j].leader # 0
        /\ calls[j].leader \in Returned
        /\ calls[j].outcome.hasRelevantDocs

\* C8: the registry holds exactly the computations whose owner has not run
\* its finally block, each under its hash; once every explainCode call has
\* returned the registry is empty.
C8_RegistryHoldsPending ==
    /\ \A i \in 1..Len(calls) :
          (calls[i].kind = "explain" /\ calls[i].leader = 0
              /\ calls[i].pc \in {"retrieving", "generating", "settled"})
          => /\ calls[i].hash \in DOMAIN requestDeduplication
             /\ requestDeduplication[calls[i].hash] = i
    /\ \A h \in DOMAIN requestDeduplication :
          /\ calls[requestDeduplication[h]].hash = h
          /\ calls[requestDeduplication[h]].pc \in {"retrieving", "generating", "settled"}
    /\ (\A i \in 1..Len(calls) : calls[i].pc = "done") => requestDeduplication = <<>>

\* C8 witness: a call that ran a computation has returned, nothing is
\* pending and the registry is empty.
C8_Witness ==
    /\ \E i \in Returned : calls[i].searches = 1
    /\ \A i \in 1..Len(calls) : calls[i].pc = "done"
    /\ requestDeduplication = <<>>

\* C9: on each store the initialize() calls cause one underlying
\* initialization: one load of the persisted index, one database open.
C9_OneInitialization ==
    /\ indexLoads <= 1
    /\ databaseOpens <= 1

\* the error of a store that is not initialized
NotInitializedError(error) ==
    Includes(error, "not initialized") \/ Includes(error, "not properly initialized")

\* C10: an operation called on a store no initialize() of which had
\* resolved fails with a "not initialized" error, returns nothing and
\* leaves the persisted index alone.
C10_UninitializedRejects ==
    \A i \in 1..Len(storeCalls) :
        (storeCalls[i].op # "initialize" /\ ~storeCalls[i].ready)
        => /\ storeCalls[i].outcome = "rejected"
           /\ NotInitializedError(storeCalls[i].error)
           /\ ~storeCalls[i].wrote

\* the indexing passes on a store that have returned
Passes(store) ==
    {i \in 1..Len(storeCalls) : storeCalls[i].op = "indexWorkspace"
                                /\ storeCalls[i].store = store}

\* what searchSimilar of the store can return: the rows of the SQLite
\* table, the array of the SimpleVectorStore
Held(store) == IF store = "sqlite" THEN rows ELSE Range(chunks)

\* C11: when an indexing pass has completed on a store that only indexing
\* passes have written, every chunk the store holds is a chunk of that
\* pass: no chunk of an earlier pass that the new pass did not produce is
\* left for searchSimilar to return.
C11_ReindexReplaces ==
    \A store \in {"sqlite", "simple"} :
        (/\ Len(storeCalls) > 0
         /\ Len(storeCalls) \in Passes(store)
         /\ storeCalls[Len(storeCalls)].outcome = "resolved"
         /\ \A i \in 1..Len(storeCalls) : storeCalls[i].store = store => i \in Passes(store))
        => Held(store) \subseteq Range(storeCalls[Len(storeCalls)].batch)

\* C12: the chunks that one indexing pass hands to storeChunks have
\* pairwise different ids, whether they come from one file or from two.
C12_DistinctIds ==
    \A p \in Passes("sqlite") \cup Passes("simple") :
        LET batch == storeCalls[p].batch
        IN \A i, j \in 1..Len(batch) : batch[i].id = batch[j].id => i = j

\* the storeChunks calls made on the SQLite store with a non-empty batch
SqliteBatchCalls ==
    {i \in 1..Len(storeCalls) : /\ storeCalls[i].store = "sqlite"
                                /\ storeCalls[i].op = "storeChunks"
                                /\ Len(storeCalls[i].batch) > 0}

\* C19: storeChunks on a non-empty batch rejects only when it stored no
\* chunk of the batch, resolves when it stored at least one, and stores
\* every valid chunk whose own embedding and INSERT did not fail, whatever
\* happened to the other chunks of the batch.
C19_BestEffortBatch ==
    \A i \in SqliteBatchCalls :
        LET call == storeCalls[i]
            valid == validChunks(call.batch)
        IN /\ call.outcome = "rejected" => call.stored = {}
           /\ call.stored # {} => call.outcome = "resolved"
           /\ \A k \in 1..Len(valid) : k \notin call.failing => valid[k] \in call.stored

\* a batch with an invalid chunk and a chunk whose INSERT failed, of which
\* the one remaining chunk was stored by a call that resolved
C19_Witness ==
    \E i \in SqliteBatchCalls :
        /\ storeCalls[i].batch = <<SumChunk, TodoChunk, ParseChunk>>
        /\ storeCalls[i].failing = {1}
        /\ storeCalls[i].stored = {ParseChunk}
        /\ storeCalls[i].outcome = "resolved"

\* a file that cannot be processed: processFile throws on it, or none of
\* its sections passes the validation of storeChunks
BadFile(file) ==
    \/ processFile(file).threw
    \/ /\ Len(processFile(file).sections) > 0
       /\ Len(validChunks(processFile(file).sections)) = 0

\* C20: an indexing pass over a workspace with one bad file, in which no
\* INSERT failed, resolves and stores the valid chunks of every other file.
C20_OneBadFileTolerated ==
    \A p \in Passes("sqlite") \cup Passes("simple") :
        LET call == storeCalls[p]
            files == Range(call.workspace)
        IN (call.failing = {} /\ Cardinality({f \in files : BadFile(f)}) = 1)
           => /\ call.outcome = "resolved"
              /\ \A f \in files : ~BadFile(f) =>
                     Range(validChunks(processFile(f).sections)) \subseteq call.stored

\* the call whose processExplanationRequest produced the result of call i:
\* the call itself, or the earlier call it joined
ComputedBy(i) == IF calls[i].leader # 0 THEN calls[i].leader ELSE i

\* C13: every citation of a result that explainCode returned names the
\* file and the heading of a chunk that searchSimilar returned to the
\* computation of that request.
C13_CitationsFromRetrieval ==
    \A i \in Returned :
        LET citations == calls[i].outcome.citations
            docs == calls[ComputedBy(i)].docs
        IN \A k \in 1..Len(citations) :
               \E d \in 1..Len(docs) : /\ docs[d].filePath = citations[k].filePath
                                       /\ docs[d].sectionHeading = citations[k].sectionHeading

\* every chunk of the workspaces of the model
AllChunks == UNION {Range(w) : w \in Workspaces}

\* the score by which searchSimilar of the SimpleVectorStore ranks a chunk
\* for the query of a context
similarityOf ==
    MapOf([c \in ValidContexts |->
        MapOf([d \in AllChunks |-> keywordScore(d, buildQueryFromContext(c))])])

\* C14: in the order in which the engine uses the retrieved chunks, a chunk
\* never stands behind a chunk of lower similarity; the first chunk, from
\* which the explanation is built, is one of the most similar.
C14_SimilarityOrderKept ==
    \A i \in 1..Len(calls) :
        (calls[i].searches = 1 /\ ~calls[i].failed /\ calls[i].pc # "retrieving") =>
            LET relevantDocs == rankedDocs[calls[i].docs]
                score(k) == similarityOf[calls[i].context][relevantDocs[k]]
            IN \A a, b \in 1..Len(relevantDocs) : a < b => score(a) >= score(b)

\* The terms of a code context: the function name, the class name, the
\* imports, and the keywords of the selected text as calculateRelevanceScore
\* and as buildQueryFromContext cut them out.
TermsOf(context) ==
    ({context.functionName, context.className} \ {""})
    \cup Range(context.imports)
    \cup {w \in Range(Split(toLowerCase(context.selectedText), SpaceChars)) :
             Len(w) > 3 /\ w \notin RelevanceStopWords}
    \cup {w \in Range(Split(toLowerCase(SplitCamel(ReplaceNonWord(context.selectedText))),
                            SpaceChars)) : Len(w) > 2 /\ w \notin QueryStopWords}

\* a term of the context occurs in the content or the heading of the chunk
SharesTerm(context, doc) ==
    \E term \in TermsOf(context) :
        \/ Includes(toLowerCase(doc.content), toLowerCase(term))
        \/ Includes(toLowerCase(doc.sectionHeading), toLowerCase(term))

sharesTermOf ==
    MapOf([c \in ValidContexts |-> MapOf([d \in AllChunks |-> SharesTerm(c, d)])])

\* C15: a call whose retrieval returned no chunk that shares a term with
\* the code context returns "Not documented." with hasRelevantDocs false.
C15_NoSharedTermRejected ==
    \A i \in Returned :
        (/\ calls[i].searches = 1
         /\ ~calls[i].failed
         /\ \A d \in 1..Len(calls[i].docs) : ~sharesTermOf[calls[i].context][calls[i].docs[d]])
        => /\ calls[i].outcome.explanation = NotDocumented
           /\ ~calls[i].outcome.hasRelevantDocs

\* the grounding check on the explanation generated for the ranked chunks
groundedOf ==
    MapOf([c \in ValidContexts |->
        MapOf([d \in RankedLists |->
            validateExplanationGrounding(generateDeterministicExplanation(c, d), d)])])

\* the computation of call i passed the enforcement of the documentation
\* requirement; its explanation passed the grounding check
PassedEnforcement(i) == hasValidDocumentation[calls[i].context][rankedDocs[calls[i].docs]]
PassedGrounding(i) == groundedOf[calls[i].context][rankedDocs[calls[i].docs]]

\* C16: a result with hasRelevantDocs true was computed, by the call or by
\* the earlier call whose result it repeats, from chunks that passed the
\* enforcement and for an explanation that passed the grounding check; a
\* call whose explanation fails the grounding check returns "Not
\* documented." with no citations and confidence 0.
C16_OnlyGroundedExplanations ==
    \A i \in Returned :
        /\ calls[i].outcome.hasRelevantDocs =>
               \E j \in 1..i : /\ calls[j].searches = 1
                               /\ PassedEnforcement(j) /\ PassedGrounding(j)
                               /\ calls[j].result.explanation = calls[i].outcome.explanation
        /\ (calls[i].searches = 1 /\ PassedEnforcement(i) /\ ~PassedGrounding(i))
           => calls[i].outcome = Rejection

\* a call whose chunks passed the enforcement and whose explanation failed
\* the grounding check has returned
C16_Witness ==
    \E i \in Returned :
        /\ calls[i].searches = 1
        /\ PassedEnforcement(i)
        /\ ~PassedGrounding(i)
        /\ \E j \in Returned : calls[j].outcome.hasRelevantDocs

\* C17: explainCode called with a selectedText that is the empty string or
\* white space only returns the "No code selected for explanation." result.
C17_BlankSelection ==
    \A i \in Returned :
        (/\ calls[i].context.type = "object"
         /\ calls[i].context.selectedTextType = "string"
         /\ Len(Trim(calls[i].context.selectedText)) = 0)
        => calls[i].outcome = ExplanationResult(NoCodeSelected, <<>>, 0, FALSE)

\* two code contexts are equal in every field, the imports taken as a set
SameContext(a, b) ==
    /\ a.selectedText = b.selectedText
    /\ a.fileName = b.fileName
    /\ a.language = b.language
    /\ a.functionName = b.functionName
    /\ a.className = b.className
    /\ Range(a.imports) = Range(b.imports)
    /\ a.surroundingContext = b.surroundingContext

\* C18: a call that was put onto the computation of an earlier call has a
\* context equal to the context of that call in every field.
C18_DedupOnlyEqualContexts ==
    \A i \in 1..Len(calls) :
        calls[i].leader # 0 => SameContext(calls[i].context, calls[calls[i].leader].context)

\* the lines of a file, as splitByHeaders sees them
LinesOf(file) == SplitLines(file.content)

\* the positions of the heading lines of a file
HeadingLines(file) == {k \in 1..Len(LinesOf(file)) : headerMatch(LinesOf(file)[k])}

\* the heading lines whose trimmed text is not empty
NamedHeadingLines(file) == {k \in HeadingLines(file) : headingOf(LinesOf(file)[k]) # ""}

\* the heading lines of a file that carry a given text
LinesNamed(file, heading) ==
    {k \in NamedHeadingLines(file) : headingOf(LinesOf(file)[k]) = heading}

\* the last line of the section that starts at line k: the line before the
\* next heading line, or the last line of the file
SectionEnd(file, k) ==
    IF \E m \in HeadingLines(file) : m > k
    THEN MinOf({m \in HeadingLines(file) : m > k}) - 1
    ELSE Len(LinesOf(file))

\* the files of a pass that processFile read
ReadFiles(call) == {f \in Range(call.workspace) : ~processFile(f).threw}

\* the positions, in the chunks of a pass, of the chunks of one file
FileChunks(call, file) == {j \in 1..Len(call.batch) : call.batch[j].filePath = file.path}

\* the chunks of one file of a pass that carry a given heading
HeadingChunks(call, file, heading) ==
    {j \in FileChunks(call, file) : call.batch[j].sectionHeading = heading}

\* C21: every heading line with a non-empty text gets a chunk of its own in
\* the output of the chunker, and when only blank lines, or no line at all,
\* lie between the heading and the next heading, that chunk has empty
\* content.
C21_EveryHeadingEmitted ==
    \A p \in Passes("sqlite") \cup Passes("simple") :
        \A f \in ReadFiles(storeCalls[p]) :
            \A k \in NamedHeadingLines(f) :
                LET call == storeCalls[p]
                    heading == headingOf(LinesOf(f)[k])
                IN /\ Cardinality(HeadingChunks(call, f, heading))
                          >= Cardinality(LinesNamed(f, heading))
                   /\ (/\ \E m \in HeadingLines(f) : m > k
                       /\ \A m \in (k + 1)..SectionEnd(f, k) : Trim(LinesOf(f)[m]) = "")
                      => \E j \in HeadingChunks(call, f, heading) : call.batch[j].content = ""

\* C22: a heading line whose trimmed text is empty opens no chunk; the
\* lines after it are part of the content of the chunk of the heading
\* before it, and that heading has no more chunks in the output than it
\* has heading lines in the file.
C22_EmptyHeadingAbsorbed ==
    \A p \in Passes("sqlite") \cup Passes("simple") :
        \A f \in ReadFiles(storeCalls[p]) :
            \A k \in HeadingLines(f) \ NamedHeadingLines(f) :
                (\E m \in NamedHeadingLines(f) : m < k) =>
                    LET call == storeCalls[p]
                        before == MaxOf({m \in NamedHeadingLines(f) : m < k})
                        heading == headingOf(LinesOf(f)[before])
                    IN /\ \A j \in FileChunks(call, f) : call.batch[j].sectionHeading # ""
                       /\ \A m \in (k + 1)..SectionEnd(f, k) :
                              Trim(LinesOf(f)[m]) # "" =>
                                  \E j \in HeadingChunks(call, f, heading) :
                                      Includes(call.batch[j].content, Trim(LinesOf(f)[m]))
                       /\ Cardinality(HeadingChunks(call, f, heading))
                              <= Cardinality(LinesNamed(f, heading))

\* C23: the chunker returns at most one chunk more than the input has
\* heading lines.
C23_ChunkCountBound ==
    \A p \in Passes("sqlite") \cup Passes("simple") :
        \A f \in ReadFiles(storeCalls[p]) :
            Cardinality(FileChunks(storeCalls[p], f)) <= Cardinality(HeadingLines(f)) + 1

\* a pass over a file with text before the first heading, which yields one
\* chunk more than the file has heading lines
C23_Witness ==
    \E p \in Passes("sqlite") \cup Passes("simple") :
        \E f \in ReadFiles(storeCalls[p]) :
            /\ Cardinality(HeadingLines(f)) = 2
            /\ Cardinality(FileChunks(storeCalls[p], f)) = 3

\* the calls of one method of the cache manager
CacheCalls(op) == {i \in 1..Len(calls) : calls[i].kind = op}

\* an entry of the cache cites the file
CitesFile(entry, filePath) ==
    \E n \in 1..Len(entry.citations) : entry.citations[n].filePath = filePath

\* C24: retrieve(context) and has(context) report an entry only while the
\* clock is before timestamp + ttl of the entry; a read at or after that
\* time reports nothing and leaves the Map without the entry.
C24_ExpiredNeverServed ==
    \A i \in CacheCalls("retrieve") \cup CacheCalls("has") :
        LET key == generateCacheKey(calls[i].context)
            before == calls[i].before
        IN /\ calls[i].found
              => key \in DOMAIN before /\ calls[i].at < before[key].timestamp + before[key].ttl
           /\ (key \in DOMAIN before /\ calls[i].at >= before[key].timestamp + before[key].ttl)
              => ~calls[i].found /\ key \notin DOMAIN calls[i].after

\* has() has met an entry exactly at its expiry time, and a read has
\* reported an entry
C24_Witness ==
    /\ \E i \in CacheCalls("retrieve") \cup CacheCalls("has") : calls[i].found
    /\ \E i \in CacheCalls("has") :
           LET key == generateCacheKey(calls[i].context)
           IN /\ key \in DOMAIN calls[i].before
              /\ calls[i].at = calls[i].before[key].timestamp + calls[i].before[key].ttl

\* C25: invalidateFile(path) removes the entries that have a citation of
\* the path and leaves every other entry in the Map as it was.
C25_InvalidateFileExact ==
    \A i \in CacheCalls("invalidateFile") :
        LET before == calls[i].before
            after == calls[i].after
        IN /\ DOMAIN after = {k \in DOMAIN before : ~CitesFile(before[k], calls[i].filePath)}
           /\ \A k \in DOMAIN after : after[k] = before[k]

\* an invalidateFile call that removed an entry citing two files and kept
\* another entry
C25_Witness ==
    \E i \in CacheCalls("invalidateFile") :
        /\ \E k \in DOMAIN calls[i].before \ DOMAIN calls[i].after :
               Len(calls[i].before[k].citations) = 2
        /\ DOMAIN calls[i].after # {}

\* the searchSimilar calls made with topK >= 1
SearchCalls == {i \in 1..Len(storeCalls) : storeCalls[i].op = "searchSimilar"
                                            /\ storeCalls[i].topK >= 1}

\* the threshold on the scale of the similarities of a store call
ThresholdTimes10 == similarityThresholdTimes10

\* C26: searchSimilar with topK >= 1 on a store that holds an index returns
\* chunks of the store whose similarity to the query is at or above the
\* threshold, in order of non-increasing similarity, min(topK, maxResults)
\* of them or all of them if there are fewer, and no chunk it leaves out is
\* more similar than one it returns.
C26_TopRankedReturned ==
    \A c \in SearchCalls :
        LET call == storeCalls[c]
            eligible == {i \in 1..Len(call.searched) : call.similarity[i] >= ThresholdTimes10}
            simOf(chunk) ==
                call.similarity[CHOOSE i \in 1..Len(call.searched) : call.searched[i] = chunk]
        IN /\ call.outcome = "resolved"
           /\ Len(call.results) = Min(Cardinality(eligible), Min(call.topK, maxResults))
           /\ \A j \in 1..Len(call.results) :
                  \E i \in eligible : call.searched[i] = call.results[j]
           /\ \A j, m \in 1..Len(call.results) :
                  /\ call.results[j] = call.results[m] => j = m
                  /\ j < m => simOf(call.results[j]) >= simOf(call.results[m])
           /\ \A i \in eligible : \A j \in 1..Len(call.results) :
                  call.searched[i] \notin Range(call.results)
                      => simOf(call.results[j]) >= call.similarity[i]

\* call i was not answered from the cache: its result, or the result of
\* the call it joined, was computed from a retrieval
Uncached(i) == ~calls[ComputedBy(i)].hit

CancelledHovers == {h \in 1..Len(hovers) : hovers[h].cancelled}

\* C28: a hover request that is cancelled before or during the call of the
\* engine returns no Hover, and the explainCode call it made, when no other
\* request shares its computation, leaves the cache as it was from the
\* cancellation on: it stores no entry.
C28_CancelledHoverNoEffect ==
    /\ [](\A h \in CancelledHovers : ~hovers[h].shown)
    /\ [][\A h \in CancelledHovers :
             (/\ hovers[h].call # 0
              /\ calls[hovers[h].call].pc \in {"retrieving", "generating"}
              /\ calls'[hovers[h].call].pc = "settled"
              /\ \A k \in 1..Len(calls) : calls[k].leader # hovers[h].call)
             => caches' = caches]_vars

\* the generateEmbedding calls
EmbeddingCalls == {i \in 1..Len(storeCalls) : storeCalls[i].op = "generateEmbedding"}

\* C29: generateEmbedding of a store, called with the empty string or with
\* white space only, does not throw: it returns a vector, and the vector
\* is as long as every other vector that the store returns.
C29_DegenerateTextEmbedded ==
    \A i \in EmbeddingCalls :
        Len(Trim(storeCalls[i].query)) = 0
        => /\ storeCalls[i].outcome = "resolved"
           /\ \A j \in EmbeddingCalls :
                  (storeCalls[j].store = storeCalls[i].store /\ storeCalls[j].outcome = "resolved")
                  => storeCalls[j].value = storeCalls[i].value

\* the three tests of enforceDocumentationRequirement applied to one chunk:
\* the relevance threshold, the floor on the length of the content, and
\* the generic phrases
PassesEveryTest(context, doc) ==
    /\ calculateRelevanceScoreTimes50(context, doc) >= minRelevanceThresholdTimes50
    /\ Len(Trim(doc.content)) >= minContentLength
    /\ \A phrase \in GenericPhrases : ~Includes(toLowerCase(doc.content), phrase)

passesEveryTestOf ==
    MapOf([c \in ValidContexts |-> MapOf([d \in AllChunks |-> PassesEveryTest(c, d)])])

\* the "(Source: ...)" marker that names a chunk
SourceMarker(doc) == " (Source: " \o doc.filePath \o " - " \o doc.sectionHeading \o ")"

sourceMarkerOf == MapOf([d \in AllChunks |-> SourceMarker(d)])

\* C30: the explanation of a result with hasRelevantDocs true, computed by
\* the call from the chunks that it retrieved, ends with the "(Source: ...)"
\* marker of a retrieved chunk only if that chunk itself passes the
\* relevance threshold, the floor on the length and the test for generic
\* phrases.
C30_QuotedChunkPassedTests ==
    \A i \in Returned :
        (calls[i].searches = 1 /\ ~calls[i].failed /\ calls[i].outcome.hasRelevantDocs)
        => \A d \in 1..Len(calls[i].docs) :
               EndsWith(calls[i].outcome.explanation, sourceMarkerOf[calls[i].docs[d]])
               => passesEveryTestOf[calls[i].context][calls[i].docs[d]]

\* C31: no explainCode call made after an index pass has completed is
\* answered with the "Not documented." entry that the cache stored for its
\* context before that pass: the call consults the vector store again.
C31_RejectionNotServedAfterIndexing ==
    \A i \in 1..Len(calls) :
        (calls[i].kind = "explain" /\ calls[i].hit /\ calls[i].hitIndexedSince)
        => calls[i].result.explanation # NotDocumented

\* C32: the step in which a call whose searchSimilar threw settles writes
\* nothing to the cache, so that a later identical request is computed
\* afresh.
C32_FailedQueryNotCached ==
    [][\A i \in 1..Len(calls) :
          (calls[i].failed /\ calls[i].pc = "retrieving" /\ calls'[i].pc = "settled")
          => caches' = caches]_vars

\* the files that a result cites
CitedFiles(result) == {result.citations[k].filePath : k \in 1..Len(result.citations)}

\* C33: a call that retrieved its chunks before clearCache() returned
\* writes no entry to the cache when it settles, and a call that retrieved
\* them before invalidateCacheForFile(path) returned writes no entry that
\* cites path.
C33_NoInsertAfterClear ==
    [][\A i \in 1..Len(calls) :
          (inFlight(calls[i]) /\ calls'[i].pc = "settled" /\ caches' # caches)
          => /\ ~calls[i].clearedSince
             /\ CitedFiles(calls'[i].result) \cap calls[i].invalidatedSince = {}]_vars

\* the cache manager that the constructor of the engine created
OriginalCacheManager == 0

\* a step in which an explainCode call looks its context up in the cache
\* manager of the engine or stores its result there
ExplainUsesCacheManager ==
    \E i \in 1..Len(calls') :
        /\ calls'[i].kind = "explain"
        /\ IF i > Len(calls) THEN calls'[i].pc \in {"retrieving", "settled"}
           ELSE inFlight(calls[i]) /\ calls'[i].pc = "settled"

\* C34: however validateDeterministicBehavior calls and explainCode calls
\* interleave, every explainCode call reads and writes the cache manager
\* that the engine was constructed with, and when every call has finished
\* the cache manager of the engine is that one again.
C34_OriginalCacheManagerKept ==
    /\ []((\A i \in 1..Len(calls) : calls[i].pc = "done")
           => cacheManager = OriginalCacheManager)
    /\ [][ExplainUsesCacheManager => cacheManager = OriginalCacheManager]_vars

\* C35: when storeChunks(X) of the SimpleVectorStore has resolved and it
\* is the only storeChunks or clearIndex call made on the store, this.chunks
\* and the persisted file both hold exactly X, whatever initialize() calls
\* were pending when it started.
C35_StoredChunksKept ==
    \A i \in 1..Len(storeCalls) :
        (/\ storeCalls[i].store = "simple"
         /\ storeCalls[i].op = "storeChunks"
         /\ storeCalls[i].outcome = "resolved"
         /\ \A j \in 1..Len(storeCalls) \ {i} :
                ~(storeCalls[j].store = "simple"
                  /\ storeCalls[j].op \in {"storeChunks", "clearIndex"}))
        => /\ chunks = storeCalls[i].batch
           /\ storageFile = storeCalls[i].batch

\* C36: an initialize() call made on the SQLite store after an earlier
\* initialization has failed, the store not being initialized, runs
\* performInitialization itself: it is not handed the promise of the failed
\* attempt.
C36_FreshAttemptAfterFailure ==
    [][\A j \in 1..Len(storeCalls') :
          (/\ j > Len(storeCalls)
           /\ storeCalls'[j].store = "sqlite"
           /\ storeCalls'[j].op = "initialize"
           /\ initializationPromise = "rejected"
           /\ ~isInitialized)
          => storeCalls'[j].pc # "waiting"]_vars

\* a chunk that passes the relevance threshold and the floor on the length
Substantial(context, doc) ==
    /\ calculateRelevanceScoreTimes50(context, doc) >= minRelevanceThresholdTimes50
    /\ Len(Trim(doc.content)) >= minContentLength

substantialOf ==
    MapOf([c \in ValidContexts |-> MapOf([d \in AllChunks |-> Substantial(c, d)])])

\* a chunk that one of the generic phrases occurs in
Generic(doc) == \E phrase \in GenericPhrases : Includes(toLowerCase(doc.content), phrase)

genericOf == MapOf([d \in AllChunks |-> Generic(d)])

\* C37: a call whose retrieved chunks that pass the relevance threshold
\* and the floor on the length all contain a generic phrase returns
\* "Not documented.", however many such chunks there are, unless the cache
\* manager threw.
C37_PlaceholdersRejected ==
    \A i \in Returned :
        (/\ calls[i].searches = 1
         /\ ~calls[i].failed
         /\ calls[i].outcome # CacheFailureResponse
         /\ \A d \in 1..Len(calls[i].docs) :
                substantialOf[calls[i].context][calls[i].docs[d]]
                => genericOf[calls[i].docs[d]])
        => calls[i].outcome.explanation = NotDocumented

\* C38: isInitialized of the SQLite store is true only when an
\* initialize() has resolved: after a rejected initialization it stays
\* false, and storeChunks and searchSimilar calls made when no initialize()
\* had resolved are rejected as not initialized.
C38_InitializedOnlyWhenResolved ==
    /\ isInitialized => initializationPromise = "resolved"
    /\ \A i \in 1..Len(storeCalls) :
          (/\ storeCalls[i].store = "sqlite"
           /\ storeCalls[i].op \in {"storeChunks", "searchSimilar"}
           /\ ~storeCalls[i].ready)
          => /\ storeCalls[i].outcome = "rejected"
             /\ NotInitializedError(storeCalls[i].error)

\* C39: the context object that the caller passed to explainCode is, when
\* the call has returned, what it was when the call was made, in every
\* field and in the order of its imports.
C39_ContextNotModified ==
    \A i \in Returned : calls[i].contextAfter = calls[i].context

\* the calls of the log by name
UiCalls(call) == {p \in 1..Len(uiProvider.log) : uiProvider.log[p].call = call}

\* C40: at most one debounce timer is pending, and every run of
\* updateExplanationForSelection is for the selection, not empty, of a
\* selection change made at least 500 ms earlier, with no selection change
\* and no unregisterDynamicUpdates between that change and the run.
C40_DebouncedUpdates ==
    /\ Cardinality(DOMAIN uiProvider.timers) <= 1
    /\ \A p \in UiCalls("updateExplanationForSelection") :
          /\ uiProvider.log[p].selection.defined
          /\ ~isEmpty(uiProvider.log[p].selection)
          /\ \E q \in UiCalls("handleSelectionChange") :
                /\ q < p
                /\ uiProvider.log[q].selection = uiProvider.log[p].selection
                /\ uiProvider.log[p].at >= uiProvider.log[q].at + debounceDelay
                /\ \A k \in (q + 1)..(p - 1) :
                      uiProvider.log[k].call \notin
                          {"handleSelectionChange", "unregisterDynamicUpdates"}

\* an update has run for the second of two selection changes that came
\* within 500 ms of each other, the first of them for a selection that
\* is not empty
C40_Witness ==
    \E p \in UiCalls("updateExplanationForSelection") :
        \E q, r \in UiCalls("handleSelectionChange") :
            /\ r < q /\ q < p
            /\ ~notMeaningful(uiProvider.log[r].selection)
            /\ uiProvider.log[q].at < uiProvider.log[r].at + debounceDelay
            /\ uiProvider.log[q].selection = uiProvider.log[p].selection
====
